---- MODULE Spec2Model ----
(***************************************************************************)
(* A model of pion/logging: the LogLevel cell, the text logger (Logger,    *)
(* Event, StringFormatter), the JSON logger (jsonLeveledLogger) and the    *)
(* two factories that read PION_LOG_<NAME> / PIONS_LOG_<NAME>.             *)
(*                                                                         *)
(* Seven specifications share the module:                                  *)
(*   SpecLevel    the LogLevel cell: Set, Get, String                      *)
(*   Spec         one logger used by several threads: emit, SetLevel       *)
(*   SpecFactory  environment -> factory -> NewLogger(scope)               *)
(*   SpecOutput   one JSON factory, the loggers it makes, their sinks:      *)
(*                NewLogger, SetLevel, WithOutput, emit                     *)
(*   SpecJSON     the records of a JSON logger: <Level>, <Level>f, SetLevel *)
(*   SpecRecords  logf with structured pairs, on jsonLeveledLogger and on   *)
(*                the exported JSONLeveledLogger                            *)
(*   SpecEvent    the text logger's events: <Level>Lvl, Str, Msg, Msgf, and  *)
(*                the <Level>/<Level>f methods, on a writer that may fail   *)
(* Strings are TLA+ strings; bytes written to a writer are strings too.    *)
(***************************************************************************)
EXTENDS Integers, Sequences, FiniteSets, TLC

VARIABLES
    \* ---- SpecLevel: a LogLevel variable shared by threads
    ll,         \* the int32 behind the LogLevel
    llGot,      \* per thread: what its last Get returned (None before)
    llExpect,   \* history: per thread, the argument of the latest Set at its last Get
    llStored,   \* history: the initial value and every value passed to Set
    llLast,     \* history: the argument of the most recent Set (initial value before)
    llStr,      \* the last String() call: [arg, res]
    \* ---- Spec: one logger, its writer, the threads using it
    lg,         \* the logger: [kind, level, scope, output]
    sink,       \* per writer: the sequence of Write calls it received, [by, bytes]
    pc,         \* per thread: "idle", "write" (passed the level check), "ret"
    op,         \* per thread: the emit call in flight
    lastSet,    \* history: the argument of the latest SetLevel that returned
    \* ---- SpecFactory: environment, factories, the logger NewLogger returned
    env,        \* the process environment: variable name -> value ("" when unset)
    jf,         \* the JSON factory (jsonLoggerFactory), NoFactory before it is built
    df,         \* the text factory (DefaultLoggerFactory), NoFactory before it is built
    made,       \* the last logger a factory returned: [from, asked, kind, level, scope, output]
    \* ---- SpecOutput: the objects the JSON factory of jf has allocated
    heapW,      \* the loggerWriter objects, by address: [output]
    heapL,      \* the jsonLeveledLogger objects, by address: [kind, level, scope, writer]
    outs,       \* per writer: the records it received, [by], by being the logger's address
    pend,       \* per logger: TRUE while a call that passed the level check has yet to write
    lastCall,   \* history: the last SetLevel or WithOutput call, [op, on, level, w, got, tick]
    redir,      \* history: per logger, the argument of the last WithOutput on it
    \* ---- SpecJSON: the JSON logger of lg and the writer of sink
    sent,       \* history: the calls that wrote a record, in order, [request, text];
                \* under SpecEvent every terminating call, in order
    \* ---- SpecEvent: the text logger of lg, the events the threads hold
    ev,         \* per thread: None, or the event it holds, <<[formatter, ...]>>
    built,      \* how many times the logger's FormatterFactory was invoked
    wanted,     \* history: how many events were asked at a level the logger passes
    broken      \* whether the Write of the writer under the logger returns an error

varsLevel == <<ll, llGot, llExpect, llStored, llLast, llStr>>
varsLogger == <<lg, sink, pc, op, lastSet>>
varsFactory == <<env, jf, df, made>>
varsOutput == <<heapW, heapL, outs, pend, lastCall, redir>>
varsJSON == <<sent>>
varsEvent == <<ev, built, wanted, broken>>
vars == <<varsLevel, varsLogger, varsFactory, varsOutput, varsJSON, varsEvent>>

(***************************************************************************)
(* LogLevel                                                                *)
(***************************************************************************)
LogLevelDisabled == 0
LogLevelError == 1
LogLevelWarn == 2
LogLevelInfo == 3
LogLevelDebug == 4
LogLevelTrace == 5

\* type LogLevel int32
MaxInt32 == 2147483647
MinInt32 == -MaxInt32 - 1

\* The named levels, and the five a call can be made at.
Levels == {LogLevelDisabled, LogLevelError, LogLevelWarn, LogLevelInfo,
           LogLevelDebug, LogLevelTrace}
RequestLevels == Levels \ {LogLevelDisabled}

\* An absent value is <<>>, a present one <<v>>.
None == <<>>
Some(v) == <<v>>

\* A store that keeps the cell when the argument names no level.
StoreClamped(cell, newLevel) ==
    IF newLevel \in Levels THEN newLevel ELSE cell
\* func (ll *LogLevel) Set(newLevel LogLevel): atomic.StoreInt32, one step.
Set(cell, newLevel) == newLevel

\* func (ll *LogLevel) Get() LogLevel: atomic.LoadInt32, one step.
Get(cell) == cell

\* A name table with the names of Debug and Trace exchanged.
StringSwapped(level) ==
    CASE level = LogLevelDisabled -> "Disabled"
      [] level = LogLevelError -> "Error"
      [] level = LogLevelWarn -> "Warn"
      [] level = LogLevelInfo -> "Info"
      [] level = LogLevelDebug -> "Trace"
      [] level = LogLevelTrace -> "Debug"
      [] OTHER -> "UNKNOWN"
\* func (ll LogLevel) String() string
String(level) ==
    CASE level = LogLevelDisabled -> "Disabled"
      [] level = LogLevelError -> "Error"
      [] level = LogLevelWarn -> "Warn"
      [] level = LogLevelInfo -> "Info"
      [] level = LogLevelDebug -> "Debug"
      [] level = LogLevelTrace -> "Trace"
      [] OTHER -> "UNKNOWN"

(***************************************************************************)
(* Strings: strings.ToLower, strings.Split, strings.Contains, fmt.Sprintf  *)
(***************************************************************************)
Char(s, i) == SubSeq(s, i, i)
Rest(s) == SubSeq(s, 2, Len(s))
HasPrefix(s, p) == Len(p) <= Len(s) /\ SubSeq(s, 1, Len(p)) = p

UpperCase == "ABCDEFGHIJKLMNOPQRSTUVWXYZ"
LowerCase == "abcdefghijklmnopqrstuvwxyz"
LowerOf ==
    [c \in {Char(UpperCase, i) : i \in 1..Len(UpperCase)} |->
        Char(LowerCase, CHOOSE i \in 1..Len(UpperCase) : Char(UpperCase, i) = c)]
LowerChar(c) == IF c \in DOMAIN LowerOf THEN LowerOf[c] ELSE c

\* strings.ToLower
RECURSIVE ToLower(_)
ToLower(s) == IF s = "" THEN "" ELSE LowerChar(Char(s, 1)) \o ToLower(Rest(s))

\* strings.Contains
RECURSIVE Contains(_, _)
Contains(s, sub) ==
    \/ HasPrefix(s, sub)
    \/ (s # "" /\ Contains(Rest(s), sub))

\* strings.Split(s, sep) for a non-empty sep: the pieces between the separators,
\* empty pieces included; Split("", sep) is one empty piece.
RECURSIVE SplitFrom(_, _, _)
SplitFrom(s, sep, piece) ==
    IF s = "" THEN <<piece>>
    ELSE IF HasPrefix(s, sep)
         THEN <<piece>> \o SplitFrom(SubSeq(s, Len(sep) + 1, Len(s)), sep, "")
         ELSE SplitFrom(Rest(s), sep, piece \o Char(s, 1))
Split(s, sep) == SplitFrom(s, sep, "")

\* fmt.Sprintf for string operands and the verbs %s and %%: a verb with no
\* operand left prints %!s(MISSING), a trailing % prints %!(NOVERB), operands
\* left over are reported in %!(EXTRA ...).
RECURSIVE ExtraArgs(_)
ExtraArgs(args) ==
    IF args = <<>> THEN ""
    ELSE "string=" \o Head(args)
         \o (IF Len(args) > 1 THEN ", " ELSE "") \o ExtraArgs(Tail(args))
RECURSIVE Sprintf(_, _)
Sprintf(format, args) ==
    IF format = ""
    THEN IF args = <<>> THEN "" ELSE "%!(EXTRA " \o ExtraArgs(args) \o ")"
    ELSE IF Char(format, 1) # "%"
    THEN Char(format, 1) \o Sprintf(Rest(format), args)
    ELSE IF Len(format) = 1
    THEN "%!(NOVERB)" \o Sprintf("", args)
    ELSE IF Char(format, 2) = "%"
    THEN "%" \o Sprintf(SubSeq(format, 3, Len(format)), args)
    ELSE IF args = <<>>
    THEN "%!" \o Char(format, 2) \o "(MISSING)" \o Sprintf(SubSeq(format, 3, Len(format)), args)
    ELSE Head(args) \o Sprintf(SubSeq(format, 3, Len(format)), Tail(args))

(***************************************************************************)
(* SpecLevel: threads storing to and loading from one LogLevel.            *)
(***************************************************************************)
Threads == {"t1", "t2"}

\* Values a caller passes to Set: named levels and values outside the enum.
SetValues == {MinInt32, LogLevelDisabled, LogLevelInfo, LogLevelTrace, 999}
\* Receivers String() is called on.
StringInputs == Levels \cup {-1, 6, 999, MinInt32, MaxInt32}

NoString == [arg |-> None, res |-> ""]

\* The states in which a specification leaves the other specifications' variables.
ParkedLevel ==
    /\ ll = LogLevelDisabled
    /\ llGot = [t \in Threads |-> None]
    /\ llExpect = [t \in Threads |-> None]
    /\ llStored = {}
    /\ llLast = None
    /\ llStr = NoString

InitLevel ==
    /\ ll \in SetValues
    /\ llGot = [t \in Threads |-> None]
    /\ llExpect = [t \in Threads |-> None]
    /\ llStored = {ll}
    /\ llLast = Some(ll)
    /\ llStr = NoString

\* Thread t calls ll.Set(v).
LevelSet(t, v) ==
    /\ ll' = Set(ll, v)
    /\ llStored' = llStored \cup {v}
    /\ llLast' = Some(v)
    /\ UNCHANGED <<llGot, llExpect, llStr>>
    /\ UNCHANGED <<varsLogger, varsFactory, varsOutput, varsJSON, varsEvent>>

\* Thread t calls ll.Get().
LevelGet(t) ==
    /\ llGot' = [llGot EXCEPT ![t] = Some(Get(ll))]
    /\ llExpect' = [llExpect EXCEPT ![t] = llLast]
    /\ UNCHANGED <<ll, llStored, llLast, llStr>>
    /\ UNCHANGED <<varsLogger, varsFactory, varsOutput, varsJSON, varsEvent>>

\* LogLevel(v).String()
LevelString(v) ==
    /\ llStr' = [arg |-> Some(v), res |-> String(v)]
    /\ UNCHANGED <<ll, llGot, llExpect, llStored, llLast>>
    /\ UNCHANGED <<varsLogger, varsFactory, varsOutput, varsJSON, varsEvent>>

(***************************************************************************)
(* Writers.  A writer is named; what each has been handed is in sink.      *)
(***************************************************************************)
Nil == "nil"
Stderr == "stderr"
Stdout == "stdout"
Buffer == "buf"
Writers == {Stderr, Stdout, Buffer}

(***************************************************************************)
(* The JSON logger: jsonLeveledLogger over slog's JSON handler             *)
(***************************************************************************)
SlogLevelTrace == -8
SlogLevelDebug == -4
SlogLevelInfo == 0
SlogLevelWarn == 4
SlogLevelError == 8

\* What stands for the clock's reading in a record.
Now == "T"

\* func newJSONLeveledLoggerForScope(scope, level, writer)
newJSONLeveledLoggerForScope(scope, level, writer) ==
    [kind |-> "json", level |-> level, scope |-> scope,
     output |-> IF writer = Nil THEN Stderr ELSE writer]

\* func logLevelToPionLevel(level slog.Level) LogLevel
logLevelToPionLevel(level) ==
    CASE level = SlogLevelTrace -> LogLevelTrace
      [] level = SlogLevelDebug -> LogLevelDebug
      [] level = SlogLevelInfo -> LogLevelInfo
      [] level = SlogLevelWarn -> LogLevelWarn
      [] level = SlogLevelError -> LogLevelError
      [] OTHER -> LogLevelDisabled

\* A rendering that leaves the level to slog, which knows no TRACE.
slogDefaultLevelString(level) ==
    CASE level = SlogLevelTrace -> "DEBUG-4"
      [] level = SlogLevelDebug -> "DEBUG"
      [] level = SlogLevelInfo -> "INFO"
      [] level = SlogLevelWarn -> "WARN"
      [] level = SlogLevelError -> "ERROR"
      [] OTHER -> "UNKNOWN"
\* func slogLevelToSlogStringValue(level slog.Level) slog.Value
slogLevelToSlogStringValue(level) ==
    CASE level = SlogLevelTrace -> "TRACE"
      [] level = SlogLevelDebug -> "DEBUG"
      [] level = SlogLevelInfo -> "INFO"
      [] level = SlogLevelWarn -> "WARN"
      [] level = SlogLevelError -> "ERROR"
      [] OTHER -> "UNKNOWN"

\* The slog level each public method passes: Trace/Tracef pass slog.Level(-8),
\* Debug/Debugf slog.LevelDebug, and so on.
MethodSlogLevel(request) ==
    CASE request = LogLevelTrace -> SlogLevelTrace
      [] request = LogLevelDebug -> SlogLevelDebug
      [] request = LogLevelInfo -> SlogLevelInfo
      [] request = LogLevelWarn -> SlogLevelWarn
      [] request = LogLevelError -> SlogLevelError

\* slog turns the variadic args into attributes: key, value, key, value, ...;
\* a value left without a key gets the key !BADKEY.
RECURSIVE argsToAttrs(_)
argsToAttrs(args) ==
    IF args = <<>> THEN <<>>
    ELSE IF Len(args) = 1 THEN << <<"!BADKEY", args[1]>> >>
    ELSE << <<args[1], args[2]>> >> \o argsToAttrs(SubSeq(args, 3, Len(args)))

\* slog's JSON handler writes a string between double quotes with the double
\* quote, the backslash and the control characters escaped.
RECURSIVE Escape(_)
Escape(s) ==
    IF s = "" THEN ""
    ELSE (CASE Char(s, 1) = "\"" -> "\\\""
            [] Char(s, 1) = "\\" -> "\\\\"
            [] Char(s, 1) = "\n" -> "\\n"
            [] OTHER -> Char(s, 1)) \o Escape(Rest(s))
Quote(s) == "\"" \o Escape(s) \o "\""

RECURSIVE JSONAttrs(_)
JSONAttrs(attrs) ==
    IF attrs = <<>> THEN ""
    ELSE "," \o Quote(attrs[1][1]) \o ":" \o Quote(attrs[1][2]) \o JSONAttrs(Tail(attrs))

\* The handler newJSONHandlerHelper builds: the built-in keys time, level, msg
\* (time as RFC3339, level through slogLevelToSlogStringValue), then the
\* attributes, one object per line, handed to the writer in one Write.
newJSONHandlerHelper(level, msg, attrs) ==
    "{" \o Quote("time") \o ":" \o Quote(Now)
        \o "," \o Quote("level") \o ":" \o Quote(slogLevelToSlogStringValue(level))
        \o "," \o Quote("msg") \o ":" \o Quote(msg)
        \o JSONAttrs(attrs) \o "}\n"

\* The level check with its comparison turned round.
jsonEnabledInverted(jl, level) == ~(Get(jl.level) > logLevelToPionLevel(level))
\* The level check that opens logf and logfWithFormatf: TRUE when the call goes on.
jsonEnabled(jl, level) == ~(Get(jl.level) < logLevelToPionLevel(level))

\* A logf that drops the caller's pairs.
logfWithoutArgs(jl, level, msg, args) ==
    newJSONHandlerHelper(level, msg, argsToAttrs(<<"scope", jl.scope>>))
\* func (jl *jsonLeveledLogger) logf(level, msg, args...): the bytes logged
\* once the level check has passed.
logf(jl, level, msg, args) ==
    newJSONHandlerHelper(level, msg, argsToAttrs(<<"scope", jl.scope>> \o args))

\* func (jl *jsonLeveledLogger) logfWithFormatf(level, format, args...)
logfWithFormatf(jl, level, format, args) ==
    LET msg == IF Len(args) > 0 THEN Sprintf(format, args) ELSE format
    IN newJSONHandlerHelper(level, msg, argsToAttrs(<<"scope", jl.scope>>))

(***************************************************************************)
(* The text logger: Logger, Event, StringFormatter, NoopFormatter          *)
(***************************************************************************)
\* func NewDefaultLeveledLoggerForScope(scope, level, writer) *Logger.  The
\* Logger keeps the level and a FormatterFactory closed over the writer; it
\* keeps no scope.
NewDefaultLeveledLoggerForScope(scope, level, writer) ==
    [kind |-> "text", level |-> level, scope |-> "",
     output |-> IF writer = Nil THEN Stdout ELSE writer]

NoopFormatter == [noop |-> TRUE, b |-> "", writer |-> Nil]

\* func NewStringFormatter(writer, lvl) Formatter
NewStringFormatter(writer, lvl) == [noop |-> FALSE, b |-> "", writer |-> writer]

\* A newEvent that asks the FormatterFactory whatever the level.
newEventEager(l, lvl) == NewStringFormatter(l.output, lvl)
\* newEvent with its comparison turned round.
newEventInverted(l, lvl) ==
    IF l.level > lvl THEN NoopFormatter ELSE NewStringFormatter(l.output, lvl)
\* func (l *Logger) newEvent(lvl LogLevel) *Event: the event's formatter.
newEvent(l, lvl) ==
    IF l.level < lvl THEN NoopFormatter ELSE NewStringFormatter(l.output, lvl)

\* Str without the separating space.
StrUnseparated(f, key, val) == [f EXCEPT !.b = f.b \o key \o "=" \o val]
\* func (f *StringFormatter) Str(key, val): a space when the builder holds
\* something, then key, "=", val.
Str(f, key, val) ==
    [f EXCEPT !.b = (IF Len(f.b) > 0 THEN f.b \o " " ELSE f.b) \o key \o "=" \o val]

\* func (f *StringFormatter) Msg(message): the builder after the call; its
\* whole content is what the one Write hands to the writer.
Msg(f, message) ==
    [f EXCEPT !.b = (IF Len(f.b) > 0 THEN f.b \o " " ELSE f.b) \o message \o "\n"]

\* func (f *StringFormatter) Msgf(format, args...)
Msgf(f, format, args) ==
    [f EXCEPT !.b = (IF Len(f.b) > 0 THEN f.b \o " " ELSE f.b)
                    \o Sprintf(format, args) \o "\n"]

\* A flush that hands the builder to the writer in two Write calls.
FlushInTwo(f) ==
    IF f.noop THEN <<>> ELSE <<SubSeq(f.b, 1, 1), SubSeq(f.b, 2, Len(f.b))>>
\* The Write calls a terminating call makes once the builder is complete:
\* f.writer.Write([]byte(f.b.String())) for the StringFormatter, none for the
\* NoopFormatter.
Flush(f) == IF f.noop THEN <<>> ELSE <<f.b>>

\* The error a failing writer returns from Write.
WriteError == "short write"
\* fmt.Printf("error writing log %s\n", err.Error()): the text, and where
\* fmt.Printf sends it.
Diagnostic(err) == Sprintf("error writing log %s\n", <<err>>)
DiagnosticWriter == Stdout

\* func (e *Event) Str(key, val) *Event: e.formatter.Str(key, val), empty for
\* the NoopFormatter.
EventStr(f, key, val) == IF f.noop THEN f ELSE Str(f, key, val)
\* func (e *Event) Msg(message): e.formatter.Msg(message)
EventMsg(f, message) == IF f.noop THEN f ELSE Msg(f, message)
\* func (e *Event) Msgf(format, args...): e.formatter.Msgf(format, args...)
EventMsgf(f, format, args) == IF f.noop THEN f ELSE Msgf(f, format, args)

\* A SetLevel with a value receiver: the store goes to a copy.
SetLevelOnCopy(jl, newLevel) == jl
\* A SetLevel that only ever raises the level.
SetLevelRaiseOnly(jl, newLevel) ==
    IF jl.level < newLevel THEN [jl EXCEPT !.level = Set(jl.level, newLevel)] ELSE jl
\* func (jl *jsonLeveledLogger) SetLevel(newLevel LogLevel)
SetLevel(jl, newLevel) == [jl EXCEPT !.level = Set(jl.level, newLevel)]

\* SetLevel of the text logger, which the tests call on the logger that
\* NewDefaultLeveledLoggerForScope returns.  Logger has no such method in the
\* sources; it is modelled as the documentation states it, a Set on the
\* logger's level.  newEvent loads that level in one read.
DefaultSetLevel(l, newLevel) == [l EXCEPT !.level = Set(l.level, newLevel)]

(***************************************************************************)
(* Spec: one logger, built by its constructor, used by the threads.        *)
(***************************************************************************)
\* At most this many Write calls reach the writers in one behaviour.
MaxRecords == 1

Scopes == {"api"}
\* What the callers log: a message for <Level>(msg), a format and its operands
\* for <Level>f(format, args...).
Msgs == {"boom"}
FormatCalls == {[format |-> "x %s", args |-> <<"y">>]}
\* Levels passed to the constructors and to SetLevel; 6 is no named level.
LevelArgs == Levels \cup {6}

NoLogger == [kind |-> "none", level |-> LogLevelDisabled, scope |-> "", output |-> Nil]
NoOp == [request |-> LogLevelDisabled, f |-> FALSE, msg |-> "", args |-> <<>>,
         formatter |-> NoopFormatter, expect |-> FALSE, afterSet |-> None, base |-> 0]

ParkedLogger ==
    /\ lg = NoLogger
    /\ sink = [w \in Writers |-> <<>>]
    /\ pc = [t \in Threads |-> "idle"]
    /\ op = [t \in Threads |-> NoOp]
    /\ lastSet = None

RECURSIVE CountBy(_, _)
CountBy(t, writes) ==
    IF writes = <<>> THEN 0
    ELSE (IF Head(writes).by = t THEN 1 ELSE 0) + CountBy(t, Tail(writes))

\* How many Write calls of thread t the writers hold.
WrittenBy(t) == CountBy(t, sink[Stderr]) + CountBy(t, sink[Stdout]) + CountBy(t, sink[Buffer])
Written == Len(sink[Stderr]) + Len(sink[Stdout]) + Len(sink[Buffer])

InitLogger ==
    /\ \E scope \in Scopes, level \in Levels, writer \in {Buffer} :
          \/ lg = newJSONLeveledLoggerForScope(scope, level, writer)
          \/ lg = NewDefaultLeveledLoggerForScope(scope, level, writer)
    /\ sink = [w \in Writers |-> <<>>]
    /\ pc = [t \in Threads |-> "idle"]
    /\ op = [t \in Threads |-> NoOp]
    /\ lastSet = None

\* Thread t calls <request>(msg) (f = FALSE) or <request>f(msg, args...) (f = TRUE)
\* on the logger: the call's first step, the level check.  The JSON logger's
\* logf / logfWithFormatf load the level and return when it is below the
\* request; the text logger's newEvent hands a NoopFormatter to the event, whose
\* Msg / Msgf then does nothing.
EmitCall(t, request, f, msg, args) ==
    /\ pc[t] = "idle"
    /\ lg.kind \in {"json", "text"}
    /\ LET formatter == IF lg.kind = "text" THEN newEvent(lg, request) ELSE NoopFormatter
           enabled == IF lg.kind = "json"
                      THEN jsonEnabled(lg, MethodSlogLevel(request))
                      ELSE ~formatter.noop
       IN /\ enabled => Written + Cardinality({u \in Threads : pc[u] = "write"}) < MaxRecords
          /\ pc' = [pc EXCEPT ![t] = IF enabled THEN "write" ELSE "ret"]
          /\ op' = [op EXCEPT ![t] =
                      [request |-> request, f |-> f, msg |-> msg, args |-> args,
                       formatter |-> formatter,
                       expect |-> lg.level >= request,
                       afterSet |-> IF lastSet = None THEN None
                                    ELSE Some(lastSet[1] >= request),
                       base |-> WrittenBy(t)]]
    /\ UNCHANGED <<lg, sink, lastSet>>
    /\ UNCHANGED <<varsLevel, varsFactory, varsOutput, varsJSON, varsEvent>>

\* The bytes the call in flight hands to its writer, and the writer.
EmitBytes(t) ==
    LET o == op[t]
    IN IF lg.kind = "json"
       THEN IF o.f THEN logfWithFormatf(lg, MethodSlogLevel(o.request), o.msg, o.args)
                   ELSE logf(lg, MethodSlogLevel(o.request), o.msg, <<>>)
       ELSE IF o.f THEN Msgf(o.formatter, o.msg, o.args).b
                   ELSE Msg(o.formatter, o.msg).b
EmitTarget(t) == IF lg.kind = "json" THEN lg.output ELSE op[t].formatter.writer

\* The call's second step: the record is built and handed to the writer in one Write.
EmitWrite(t) ==
    /\ pc[t] = "write"
    /\ sink' = [sink EXCEPT ![EmitTarget(t)] = Append(@, [by |-> t, bytes |-> EmitBytes(t)])]
    /\ pc' = [pc EXCEPT ![t] = "ret"]
    /\ UNCHANGED <<lg, op, lastSet>>
    /\ UNCHANGED <<varsLevel, varsFactory, varsOutput, varsJSON, varsEvent>>

\* The call returns.
EmitReturn(t) ==
    /\ pc[t] = "ret"
    /\ pc' = [pc EXCEPT ![t] = "idle"]
    /\ op' = [op EXCEPT ![t] = NoOp]
    /\ UNCHANGED <<lg, sink, lastSet>>
    /\ UNCHANGED <<varsLevel, varsFactory, varsOutput, varsJSON, varsEvent>>

\* Thread t calls SetLevel(newLevel) on the JSON logger: one atomic store.
CallSetLevel(t, newLevel) ==
    /\ pc[t] = "idle"
    /\ lg.kind = "json"
    /\ lg' = SetLevel(lg, newLevel)
    /\ lastSet' = Some(newLevel)
    /\ UNCHANGED <<sink, pc, op>>
    /\ UNCHANGED <<varsLevel, varsFactory, varsOutput, varsJSON, varsEvent>>

\* Thread t calls SetLevel(newLevel) on the text logger.
CallDefaultSetLevel(t, newLevel) ==
    /\ pc[t] = "idle"
    /\ lg.kind = "text"
    /\ lg' = DefaultSetLevel(lg, newLevel)
    /\ lastSet' = Some(newLevel)
    /\ UNCHANGED <<sink, pc, op>>
    /\ UNCHANGED <<varsLevel, varsFactory, varsOutput, varsJSON, varsEvent>>

(***************************************************************************)
(* The factories: environment, options, NewLogger                          *)
(***************************************************************************)
LevelNames == {"DISABLE", "ERROR", "WARN", "INFO", "DEBUG", "TRACE"}

\* logLevels := map[string]LogLevel{...}
logLevels(name) ==
    CASE name = "DISABLE" -> LogLevelDisabled
      [] name = "ERROR" -> LogLevelError
      [] name = "WARN" -> LogLevelWarn
      [] name = "INFO" -> LogLevelInfo
      [] name = "DEBUG" -> LogLevelDebug
      [] name = "TRACE" -> LogLevelTrace

EnvVars == {"PION_LOG_" \o n : n \in LevelNames} \cup {"PIONS_LOG_" \o n : n \in LevelNames}

\* os.Getenv
Getenv(key) == env[key]

\* A lookup that reads the legacy PIONS_LOG_ variable first.
EnvValueLegacyFirst(name) ==
    IF Getenv("PIONS_LOG_" \o name) = ""
    THEN Getenv("PION_LOG_" \o name)
    ELSE Getenv("PIONS_LOG_" \o name)
\* env := os.Getenv("PION_LOG_" + name); if env == "" { env = os.Getenv("PIONS_LOG_" + name) }
EnvValue(name) ==
    IF Getenv("PION_LOG_" \o name) = ""
    THEN Getenv("PIONS_LOG_" \o name)
    ELSE Getenv("PION_LOG_" \o name)

\* A Go map as a function on its keys.
EmptyMap == <<>>
MapSet(m, key, value) ==
    [k \in DOMAIN m \cup {key} |-> IF k = key THEN value ELSE m[k]]

\* A loop that stores the first scope of the list only.
SetScopesFirstOnly(m, scopes, level) ==
    IF scopes = <<>> THEN m ELSE MapSet(m, Head(scopes), level)
\* for _, scope := range scopes { scopeLevels[scope] = level }
RECURSIVE SetScopes(_, _, _)
SetScopes(m, scopes, level) ==
    IF scopes = <<>> THEN m
    ELSE SetScopes(MapSet(m, Head(scopes), level), Tail(scopes), level)

\* Ranging over the map logLevels visits each name once, in an order the
\* runtime picks.  A name whose variables are both empty is skipped
\* (if env == "" { continue }), so the orders that matter are those of the
\* names the environment configures.
Configured == {name \in LevelNames : EnvValue(name) # ""}
RECURSIVE OrdersOf(_)
OrdersOf(names) ==
    IF names = {} THEN {<<>>}
    ELSE UNION {{<<n>> \o rest : rest \in OrdersOf(names \ {n})} : n \in names}

\* The loop body with the broadcast level assigned without the comparison.
jsonLoopBodyAssign(factory, name) ==
    LET lowered == ToLower(EnvValue(name))
    IN IF lowered = "all"
       THEN [factory EXCEPT !.defaultLogLevel = logLevels(name)]
       ELSE [factory EXCEPT !.scopeLevels =
                SetScopes(@, Split(lowered, ","), logLevels(name))]
\* The loop body taking any value that contains "all" for the broadcast.
jsonLoopBodyContainsAll(factory, name) ==
    LET lowered == ToLower(EnvValue(name))
    IN IF Contains(lowered, "all")
       THEN IF factory.defaultLogLevel < logLevels(name)
            THEN [factory EXCEPT !.defaultLogLevel = logLevels(name)]
            ELSE factory
       ELSE [factory EXCEPT !.scopeLevels =
                SetScopes(@, Split(lowered, ","), logLevels(name))]
\* One pass of the loop body of newJSONLoggerFactory for a configured name.
jsonLoopBody(factory, name) ==
    LET lowered == ToLower(EnvValue(name))
    IN IF lowered = "all"
       THEN IF factory.defaultLogLevel < logLevels(name)
            THEN [factory EXCEPT !.defaultLogLevel = logLevels(name)]
            ELSE factory
       ELSE [factory EXCEPT !.scopeLevels =
                SetScopes(@, Split(lowered, ","), logLevels(name))]

RECURSIVE jsonLoop(_, _)
jsonLoop(factory, order) ==
    IF order = <<>> THEN factory
    ELSE jsonLoop(jsonLoopBody(factory, Head(order)), Tail(order))

\* func newJSONLoggerFactory() *jsonLoggerFactory, the names visited in order.
newJSONLoggerFactory(order) ==
    jsonLoop([kind |-> "json", writer |-> Stderr, defaultLogLevel |-> LogLevelError,
              scopeLevels |-> EmptyMap], order)

\* The options WithJSONWriter(writer), WithJSONDefaultLevel(level),
\* WithJSONScopeLevels(levels), and a nil option.  WithJSONScopeLevelsNil is
\* WithJSONScopeLevels(nil).
NoOption == [opt |-> "nil", writer |-> Nil, level |-> LogLevelDisabled,
             isNil |-> TRUE, levels |-> EmptyMap]
WithJSONWriter(writer) == [NoOption EXCEPT !.opt = "writer", !.writer = writer]
WithJSONDefaultLevel(level) == [NoOption EXCEPT !.opt = "level", !.level = level]
WithJSONScopeLevels(levels) ==
    [NoOption EXCEPT !.opt = "scopes", !.isNil = FALSE, !.levels = levels]
WithJSONScopeLevelsNil == [NoOption EXCEPT !.opt = "scopes"]

\* A merge that stores each scope name as the option wrote it.
RECURSIVE MergeAsWritten(_, _, _)
MergeAsWritten(m, levels, keys) ==
    IF keys = <<>> THEN m
    ELSE MergeAsWritten(MapSet(m, Head(keys), levels[Head(keys)]), levels, Tail(keys))
\* for scope, level := range levels { factory.scopeLevels[strings.ToLower(scope)] = level }
\* keys is the order in which the range visits the keys of the option's map.
RECURSIVE MergeLowered(_, _, _)
MergeLowered(m, levels, keys) ==
    IF keys = <<>> THEN m
    ELSE MergeLowered(MapSet(m, ToLower(Head(keys)), levels[Head(keys)]), levels, Tail(keys))

\* An option application that stores scope names as written.
ApplyOptionVerbatim(factory, option, keys) ==
    CASE option.opt = "writer" ->
           [factory EXCEPT !.writer = IF option.writer = Nil THEN Stderr ELSE option.writer]
      [] option.opt = "level" -> [factory EXCEPT !.defaultLogLevel = option.level]
      [] option.opt = "scopes" ->
           IF option.isNil THEN factory
           ELSE [factory EXCEPT !.scopeLevels =
                    [k \in DOMAIN @ \cup DOMAIN option.levels |->
                        IF k \in DOMAIN option.levels THEN option.levels[k] ELSE @[k]]]
      [] option.opt = "nil" -> factory
\* option(factory)
ApplyOption(factory, option, keys) ==
    CASE option.opt = "writer" ->
           [factory EXCEPT !.writer = IF option.writer = Nil THEN Stderr ELSE option.writer]
      [] option.opt = "level" -> [factory EXCEPT !.defaultLogLevel = option.level]
      [] option.opt = "scopes" ->
           IF option.isNil THEN factory
           ELSE [factory EXCEPT !.scopeLevels =
                    MergeLowered(@, option.levels, keys)]
      [] option.opt = "nil" -> factory

\* A loop that applies the options from the last to the first.
RECURSIVE ApplyOptionsBackwards(_, _, _)
ApplyOptionsBackwards(factory, options, keyOrders) ==
    IF options = <<>> THEN factory
    ELSE ApplyOption(ApplyOptionsBackwards(factory, Tail(options), Tail(keyOrders)),
                     Head(options), Head(keyOrders))
\* for _, option := range options; keyOrders[i] is the order in which the
\* i-th option ranges over its map.
RECURSIVE ApplyOptions(_, _, _)
ApplyOptions(factory, options, keyOrders) ==
    IF options = <<>> THEN factory
    ELSE ApplyOptions(ApplyOption(factory, Head(options), Head(keyOrders)),
                      Tail(options), Tail(keyOrders))

\* The orders in which the options of a list may range over their maps.
KeyOrdersOf(options) ==
    {ko \in [1..Len(options) ->
                UNION {OrdersOf(DOMAIN options[i].levels) : i \in 1..Len(options)}] :
        \A i \in 1..Len(options) : ko[i] \in OrdersOf(DOMAIN options[i].levels)}

\* func NewJSONLoggerFactory(options ...JSONLoggerFactoryOption) LoggerFactory
NewJSONLoggerFactory(options, order, keyOrders) ==
    ApplyOptions(newJSONLoggerFactory(order), options, keyOrders)

\* One pass of the loop body of NewDefaultLoggerFactory for a configured name.
defaultLoopBody(factory, name) ==
    LET lowered == ToLower(EnvValue(name))
    IN IF lowered = "all"
       THEN [factory EXCEPT !.defaultLogLevel = logLevels(name)]
       ELSE [factory EXCEPT !.scopeLevels =
                SetScopes(@, Split(lowered, ","), logLevels(name))]

RECURSIVE defaultLoop(_, _)
defaultLoop(factory, order) ==
    IF order = <<>> THEN factory
    ELSE defaultLoop(defaultLoopBody(factory, Head(order)), Tail(order))

\* func NewDefaultLoggerFactory() *DefaultLoggerFactory: the Writer is left nil.
NewDefaultLoggerFactory(order) ==
    defaultLoop([kind |-> "text", writer |-> Nil, defaultLogLevel |-> LogLevelError,
                 scopeLevels |-> EmptyMap], order)

\* A NewLogger that lower-cases the scope before the lookup.
jsonNewLoggerLowered(f, scope) ==
    newJSONLeveledLoggerForScope(scope,
        IF ToLower(scope) \in DOMAIN f.scopeLevels
        THEN f.scopeLevels[ToLower(scope)] ELSE f.defaultLogLevel,
        f.writer)
\* func (f *jsonLoggerFactory) NewLogger(scope string) LeveledLogger
jsonNewLogger(f, scope) ==
    newJSONLeveledLoggerForScope(scope,
        IF scope \in DOMAIN f.scopeLevels THEN f.scopeLevels[scope] ELSE f.defaultLogLevel,
        f.writer)

\* func (f *DefaultLoggerFactory) NewLogger(scope string) LeveledLogger
defaultNewLogger(f, scope) ==
    NewDefaultLeveledLoggerForScope(scope,
        IF scope \in DOMAIN f.scopeLevels THEN f.scopeLevels[scope] ELSE f.defaultLogLevel,
        f.writer)

(***************************************************************************)
(* SpecFactory: an environment, one factory built from it, loggers asked   *)
(* of the factory.                                                         *)
(***************************************************************************)
\* At most this many PION_LOG_<NAME> variables are set in an environment that
\* names scopes.
MaxEnvSet == 2

EmptyEnv == [v \in EnvVars |-> ""]
PionValues == {"all", "foo", "Foo,BAR", "all,foo"}
PionsValues == {"all", "foo"}

\* Environments that set at most n of the PION_LOG_<NAME> variables.
RECURSIVE SparseEnvs(_)
SparseEnvs(n) ==
    IF n = 0 THEN {EmptyEnv}
    ELSE SparseEnvs(n - 1) \cup
         {[e EXCEPT !["PION_LOG_" \o name] = x] :
              e \in SparseEnvs(n - 1), name \in LevelNames, x \in PionValues}

\* Environments that set one legacy PIONS_LOG_<NAME> variable, beside at most
\* one PION_LOG_<NAME> variable.
FallbackEnvs ==
    {[e EXCEPT !["PIONS_LOG_" \o name] = x] :
         e \in SparseEnvs(1), name \in LevelNames, x \in PionsValues}

\* Environments that set PION_LOG_<NAME> to "all", in some spelling, for any
\* set of the names of the five levels that log.
AllSpelling(name) ==
    CASE name = "INFO" -> "All"
      [] name = "DEBUG" -> "ALL"
      [] OTHER -> "all"
BroadcastEnvs ==
    {[v \in EnvVars |->
        IF \E n \in names : v = "PION_LOG_" \o n
        THEN AllSpelling(CHOOSE n \in names : v = "PION_LOG_" \o n)
        ELSE ""] : names \in SUBSET (LevelNames \ {"DISABLE"})}

\* Environments that set one PION_LOG_<NAME> variable to a list with "all"
\* among its pieces, a space inside a piece and an empty last piece.
PiecesEnvs ==
    {[EmptyEnv EXCEPT !["PION_LOG_" \o name] = "ALL, foo,"] : name \in LevelNames}

OptionLists ==
    {<<>>,
     <<WithJSONScopeLevels("Foo" :> LogLevelTrace)>>,
     <<WithJSONDefaultLevel(LogLevelDisabled), WithJSONScopeLevels("Foo" :> LogLevelWarn)>>,
     <<WithJSONWriter(Buffer), WithJSONDefaultLevel(LogLevelDebug),
       WithJSONScopeLevels("CustomScope" :> LogLevelTrace)>>,
     <<WithJSONWriter(Nil), NoOption, WithJSONScopeLevelsNil>>,
     <<WithJSONDefaultLevel(LogLevelTrace), WithJSONScopeLevels("foo" :> LogLevelDebug),
       WithJSONDefaultLevel(LogLevelWarn), WithJSONScopeLevels("Foo" :> LogLevelInfo)>>,
     <<WithJSONScopeLevels(("Foo" :> LogLevelWarn) @@ ("foo" :> LogLevelTrace))>>}

AskScopes == {"foo", "Foo", "bar", "all", "customscope", "CustomScope"}

ParkedFactory ==
    /\ env = EmptyEnv
    /\ jf = None
    /\ df = None
    /\ made = None

InitFactory ==
    /\ env \in SparseEnvs(MaxEnvSet) \cup FallbackEnvs \cup BroadcastEnvs \cup PiecesEnvs
    /\ jf = None
    /\ df = None
    /\ made = None

\* NewJSONLoggerFactory(options...) is called; order is the order in which
\* the range over the level map visits the configured names.
BuildJSONFactory(options) ==
    /\ jf = None /\ df = None
    /\ \E order \in OrdersOf(Configured), keyOrders \in KeyOrdersOf(options) :
          jf' = Some([f |-> NewJSONLoggerFactory(options, order, keyOrders),
                      options |-> options])
    /\ UNCHANGED <<env, df, made>>
    /\ UNCHANGED <<varsLevel, varsLogger, varsOutput, varsJSON, varsEvent>>

\* NewDefaultLoggerFactory() is called; order as above.
BuildDefaultFactory ==
    /\ jf = None /\ df = None
    /\ \E order \in OrdersOf(Configured) :
          df' = Some([f |-> NewDefaultLoggerFactory(order), options |-> <<>>])
    /\ UNCHANGED <<env, jf, made>>
    /\ UNCHANGED <<varsLevel, varsLogger, varsOutput, varsJSON, varsEvent>>

\* factory.NewLogger(scope) on the JSON factory.
CallJSONNewLogger(scope) ==
    /\ jf # None
    /\ made' = Some([asked |-> scope, logger |-> jsonNewLogger(jf[1].f, scope)])
    /\ UNCHANGED <<env, jf, df>>
    /\ UNCHANGED <<varsLevel, varsLogger, varsOutput, varsJSON, varsEvent>>

\* factory.NewLogger(scope) on the text factory.
CallDefaultNewLogger(scope) ==
    /\ df # None
    /\ made' = Some([asked |-> scope, logger |-> defaultNewLogger(df[1].f, scope)])
    /\ UNCHANGED <<env, jf, df>>
    /\ UNCHANGED <<varsLevel, varsLogger, varsOutput, varsJSON, varsEvent>>

(***************************************************************************)
(* SpecOutput: a JSON factory, the loggers it allocates, and their sinks.  *)
(* A logger is an object at an address; it holds the address of its own    *)
(* loggerWriter, which holds the target writer.                            *)
(***************************************************************************)
\* At most this many records are written.
MaxWrites == 1

\* The variables of the callers that hold a logger (fooLogger, bazLogger).
Holders == {"fooLogger", "bazLogger"}
OutScopes == {"foo", "bar"}
OutLevels == {LogLevelDisabled, LogLevelTrace}
OutWriters == {Nil, Buffer}
OutRequest == LogLevelError

\* loggerWriter.SetOutput(writer): replaces the target, standard error for nil.
SetOutput(hW, lw, writer) ==
    [hW EXCEPT ![lw].output = IF writer = Nil THEN Stderr ELSE writer]
\* loggerWriter.Write(bytes) forwards to the current target: the writer that
\* receives the bytes.
Write(hW, lw) == hW[lw].output

\* A constructor that hands every logger the loggerWriter of the first one.
AllocateSharedWriter(h, obj) ==
    LET hW == IF h.heapW = <<>> THEN <<[output |-> obj.output]>> ELSE h.heapW
    IN [heapW |-> hW,
        heapL |-> Append(h.heapL, [kind |-> "json", level |-> obj.level,
                                   scope |-> obj.scope, writer |-> 1])]
\* lw := &loggerWriter{output: writer}; return &jsonLeveledLogger{level: level,
\* writer: lw, logger: logger, scope: scope}.  obj holds the constructor's
\* level, scope and coerced writer; both objects are new.
Allocate(h, obj) ==
    [heapW |-> Append(h.heapW, [output |-> obj.output]),
     heapL |-> Append(h.heapL, [kind |-> "json", level |-> obj.level,
                                scope |-> obj.scope, writer |-> Len(h.heapW) + 1])]

\* A WithOutput that leaves the logger alone and returns a redirected copy.
WithOutputOnCopy(h, jl, output) ==
    LET out == IF output = Nil THEN Stderr ELSE output
    IN [heapW |-> Append(h.heapW, [output |-> out]),
        heapL |-> Append(h.heapL, [h.heapL[jl] EXCEPT !.writer = Len(h.heapW) + 1]),
        ret |-> Len(h.heapL) + 1]
\* func (jl *jsonLeveledLogger) WithOutput(output io.Writer) LeveledLogger
WithOutput(h, jl, output) ==
    LET out == IF output = Nil THEN Stderr ELSE output
    IN [heapW |-> SetOutput(h.heapW, h.heapL[jl].writer, out),
        heapL |-> h.heapL,
        ret |-> jl]

\* tick alternates between 0 and 1 from one call to the next.
NoCall == [op |-> "none", on |-> 0, level |-> LogLevelDisabled, w |-> Nil, got |-> 0,
           tick |-> 0]
Heap == [heapW |-> heapW, heapL |-> heapL]
OutWritten == Len(outs[Stderr]) + Len(outs[Stdout]) + Len(outs[Buffer])
Pending == Cardinality({i \in 1..Len(pend) : pend[i]})
\* A per-logger history grown to the loggers of the heap hL.
Grown(hist, hL, fresh) ==
    [k \in 1..Len(hL) |-> IF k <= Len(hist) THEN hist[k] ELSE fresh]

ParkedOutput ==
    /\ heapW = <<>>
    /\ heapL = <<>>
    /\ outs = [w \in Writers |-> <<>>]
    /\ pend = <<>>
    /\ lastCall = NoCall
    /\ redir = <<>>

\* The environments and option lists of the factory whose loggers are used.
OutEnvs == {EmptyEnv, [EmptyEnv EXCEPT !["PION_LOG_DEBUG"] = "foo"]}
OutOptionLists ==
    {<<>>, <<WithJSONWriter(Buffer), WithJSONDefaultLevel(LogLevelTrace)>>}

InitOutputFactory ==
    /\ env \in OutEnvs
    /\ \E options \in OutOptionLists, order \in OrdersOf(Configured) :
          \E keyOrders \in KeyOrdersOf(options) :
              jf = Some([f |-> NewJSONLoggerFactory(options, order, keyOrders),
                         options |-> options])
    /\ df = None
    /\ made = None

\* holder := factory.NewLogger(scope)
OutNewLogger(scope) ==
    /\ Len(heapL) < Cardinality(Holders)
    /\ LET h == Allocate(Heap, jsonNewLogger(jf[1].f, scope))
       IN /\ heapW' = h.heapW
          /\ heapL' = h.heapL
          /\ pend' = Grown(pend, h.heapL, FALSE)
          /\ redir' = Grown(redir, h.heapL, None)
    /\ UNCHANGED <<outs, lastCall>>
    /\ UNCHANGED <<varsLevel, varsLogger, varsFactory, varsJSON, varsEvent>>

\* logger.SetLevel(newLevel) on the logger at address i.
OutSetLevel(i, newLevel) ==
    /\ i \in 1..Len(heapL)
    /\ heapL' = [heapL EXCEPT ![i] = SetLevel(@, newLevel)]
    /\ lastCall' = [NoCall EXCEPT !.op = "SetLevel", !.on = i, !.level = newLevel,
                                  !.tick = 1 - lastCall.tick]
    /\ UNCHANGED <<heapW, outs, pend, redir>>
    /\ UNCHANGED <<varsLevel, varsLogger, varsFactory, varsJSON, varsEvent>>

\* logger.WithOutput(output) on the logger at address i, up to its return.
OutWithOutput(i, output) ==
    /\ i \in 1..Len(heapL)
    /\ LET r == WithOutput(Heap, i, output)
       IN /\ heapW' = r.heapW
          /\ heapL' = r.heapL
          /\ pend' = Grown(pend, r.heapL, FALSE)
          /\ redir' = [Grown(redir, r.heapL, None) EXCEPT ![i] = Some(output)]
          /\ lastCall' = [NoCall EXCEPT !.op = "WithOutput", !.on = i, !.w = output,
                                        !.got = r.ret, !.tick = 1 - lastCall.tick]
    /\ UNCHANGED outs
    /\ UNCHANGED <<varsLevel, varsLogger, varsFactory, varsJSON, varsEvent>>

\* logger.Error(msg) on the logger at address i passes the level check of logf.
OutBegin(i) ==
    /\ i \in 1..Len(heapL)
    /\ ~pend[i]
    /\ OutWritten + Pending < MaxWrites
    /\ jsonEnabled(heapL[i], MethodSlogLevel(OutRequest))
    /\ pend' = [pend EXCEPT ![i] = TRUE]
    /\ UNCHANGED <<heapW, heapL, outs, lastCall, redir>>
    /\ UNCHANGED <<varsLevel, varsLogger, varsFactory, varsJSON, varsEvent>>

\* The handler writes the record through the logger's loggerWriter.
OutWrite(i) ==
    /\ i \in 1..Len(heapL)
    /\ pend[i]
    /\ outs' = [outs EXCEPT ![Write(heapW, heapL[i].writer)] = Append(@, [by |-> i])]
    /\ pend' = [pend EXCEPT ![i] = FALSE]
    /\ UNCHANGED <<heapW, heapL, lastCall, redir>>
    /\ UNCHANGED <<varsLevel, varsLogger, varsFactory, varsJSON, varsEvent>>

\* A handler whose floor is slog's default, Info.
slogHandlerEnabledFromInfo(level) == level >= SlogLevelInfo
\* The Enabled of the handler newJSONHandlerHelper builds: its options set
\* Level: slog.Level(-8).
HandlerLevel == -8
slogHandlerEnabled(level) == level >= HandlerLevel

\* The levels of slog's own methods and of jl.logf's callers.
SlogLevels == {SlogLevelTrace, SlogLevelDebug, SlogLevelInfo, SlogLevelWarn, SlogLevelError}

\* logger.Slog().Log(ctx, level, msg) on the logger at address i: the
\* *slog.Logger asks its handler alone, which writes the record through the
\* logger's loggerWriter.
OutSlogLog(i, level) ==
    /\ i \in 1..Len(heapL)
    /\ OutWritten + Pending < MaxWrites
    /\ outs' = IF slogHandlerEnabled(level)
               THEN [outs EXCEPT ![Write(heapW, heapL[i].writer)] = Append(@, [by |-> i])]
               ELSE outs
    /\ lastCall' = [NoCall EXCEPT !.op = "Slog", !.on = i, !.level = level,
                                  !.tick = 1 - lastCall.tick]
    /\ UNCHANGED <<heapW, heapL, pend, redir>>
    /\ UNCHANGED <<varsLevel, varsLogger, varsFactory, varsJSON, varsEvent>>

(***************************************************************************)
(* SpecJSON: one JSON logger; each call that passes the level check writes *)
(* its record, and the call is remembered beside it.                       *)
(***************************************************************************)
JSONScopes == {"api", "Api", "a\"b", ""}
\* The calls: <Level>(msg) with f FALSE, <Level>f(msg, args...) with f TRUE;
\* text is the message the call is to log.
JSONCalls ==
    {[f |-> FALSE, msg |-> "boom", args |-> <<>>, text |-> "boom"],
     [f |-> FALSE, msg |-> "say \"hi\"", args |-> <<>>, text |-> "say \"hi\""],
     [f |-> FALSE, msg |-> "a\\b %s", args |-> <<>>, text |-> "a\\b %s"],
     [f |-> TRUE, msg |-> "x %s", args |-> <<"y">>, text |-> "x y"],
     [f |-> TRUE, msg |-> "50%", args |-> <<>>, text |-> "50%"],
     [f |-> TRUE, msg |-> "q %s\n", args |-> <<"\"">>, text |-> "q \"\n"]}

ParkedJSON == sent = <<>>

InitJSON ==
    /\ \E scope \in JSONScopes, level \in Levels :
          lg = newJSONLeveledLoggerForScope(scope, level, Buffer)
    /\ sink = [w \in Writers |-> <<>>]
    /\ pc = [t \in Threads |-> "idle"]
    /\ op = [t \in Threads |-> NoOp]
    /\ lastSet = None
    /\ sent = <<>>

\* One of the ten operations of the JSON logger, from the call to the Write.
JSONEmit(t, request, c) ==
    /\ lg.kind = "json"
    /\ pc[t] = "idle"
    /\ Written < MaxRecords
    /\ jsonEnabled(lg, MethodSlogLevel(request))
    /\ sink' = [sink EXCEPT ![lg.output] =
                   Append(@, [by |-> t,
                              bytes |-> IF c.f
                                        THEN logfWithFormatf(lg, MethodSlogLevel(request),
                                                             c.msg, c.args)
                                        ELSE logf(lg, MethodSlogLevel(request), c.msg, <<>>)])]
    /\ sent' = Append(sent, [request |-> request, text |-> c.text])
    /\ UNCHANGED <<lg, pc, op, lastSet>>
    /\ UNCHANGED <<varsLevel, varsFactory, varsOutput, varsEvent>>

(***************************************************************************)
(* SpecRecords: logf(level, msg, args...) of the two JSON loggers of the   *)
(* sources, jsonLeveledLogger and the exported JSONLeveledLogger.          *)
(***************************************************************************)
\* slog.Level.String(), which the handler of JSONLeveledLogger is left with:
\* its ReplaceAttr rewrites the time only.
slogLevelString(level) ==
    CASE level = SlogLevelTrace -> "DEBUG-4"
      [] level = SlogLevelDebug -> "DEBUG"
      [] level = SlogLevelInfo -> "INFO"
      [] level = SlogLevelWarn -> "WARN"
      [] level = SlogLevelError -> "ERROR"

\* func (jl *JSONLeveledLogger) pionLevelToString(level LogLevel) string
pionLevelToString(level) ==
    CASE level = LogLevelTrace -> "TRACE"
      [] level = LogLevelDebug -> "DEBUG"
      [] level = LogLevelInfo -> "INFO"
      [] level = LogLevelWarn -> "WARN"
      [] level = LogLevelError -> "ERROR"
      [] level = LogLevelDisabled -> "DISABLED"
      [] OTHER -> "UNKNOWN"

\* func NewJSONLeveledLoggerForScope(scope, level, writer) *JSONLeveledLogger
NewJSONLeveledLoggerForScope(scope, level, writer) ==
    [kind |-> "jsonLegacy", level |-> level, scope |-> scope,
     output |-> IF writer = Nil THEN Stderr ELSE writer]

\* The record the handler of NewJSONLeveledLoggerForScope builds.
legacyJSONHandler(level, msg, attrs) ==
    "{" \o Quote("time") \o ":" \o Quote(Now)
        \o "," \o Quote("level") \o ":" \o Quote(slogLevelString(level))
        \o "," \o Quote("msg") \o ":" \o Quote(msg)
        \o JSONAttrs(attrs) \o "}\n"

\* func (jl *JSONLeveledLogger) logf(level, msg, args...): the bytes logged
\* once the level check has passed.
legacyLogf(jl, level, msg, args) ==
    legacyJSONHandler(level, msg,
        argsToAttrs(<<"scope", jl.scope,
                      "level", pionLevelToString(logLevelToPionLevel(level))>> \o args))

RecScopes == {"api", "a\"b"}
RecMsgs == {"Processing request", "say \"hi\""}
\* The args of logf: key, value, key, value, ...
RecArgs ==
    {<<>>,
     <<"method", "GET">>,
     <<"method", "GET", "path", "/users">>,
     <<"path", "/us\"ers", "method", "GET">>}

InitRecords ==
    /\ \E scope \in RecScopes, level \in Levels :
          \/ lg = newJSONLeveledLoggerForScope(scope, level, Buffer)
          \/ lg = NewJSONLeveledLoggerForScope(scope, level, Buffer)
    /\ sink = [w \in Writers |-> <<>>]
    /\ pc = [t \in Threads |-> "idle"]
    /\ op = [t \in Threads |-> NoOp]
    /\ lastSet = None
    /\ sent = <<>>

\* jl.logf(level, msg, args...) on the jsonLeveledLogger, up to the Write.
RecLogf(t, request, msg, args) ==
    /\ lg.kind = "json"
    /\ Written < MaxRecords
    /\ jsonEnabled(lg, MethodSlogLevel(request))
    /\ sink' = [sink EXCEPT ![lg.output] =
                   Append(@, [by |-> t,
                              bytes |-> logf(lg, MethodSlogLevel(request), msg, args)])]
    /\ sent' = Append(sent, [request |-> request, text |-> msg, args |-> args])
    /\ UNCHANGED <<lg, pc, op, lastSet>>
    /\ UNCHANGED <<varsLevel, varsFactory, varsOutput, varsEvent>>

\* jl.logf(level, msg, args...) on the JSONLeveledLogger, up to the Write.
RecLegacyLogf(t, request, msg, args) ==
    /\ lg.kind = "jsonLegacy"
    /\ Written < MaxRecords
    /\ jsonEnabled(lg, MethodSlogLevel(request))
    /\ sink' = [sink EXCEPT ![lg.output] =
                   Append(@, [by |-> t,
                              bytes |-> legacyLogf(lg, MethodSlogLevel(request), msg, args)])]
    /\ sent' = Append(sent, [request |-> request, text |-> msg, args |-> args])
    /\ UNCHANGED <<lg, pc, op, lastSet>>
    /\ UNCHANGED <<varsLevel, varsFactory, varsOutput, varsEvent>>

(***************************************************************************)
(* SpecEvent: one text logger; the threads take events from it, add fields *)
(* and terminate them, or call the <Level>/<Level>f methods.  Every        *)
(* terminating call is remembered in sent:                                 *)
(*   [by, request, text, fields, all, first, legacy, on, err]              *)
(* fields being those added since the event's previous terminating call,   *)
(* all those added since newEvent, on whether the logger's level passes    *)
(* the request and err whether the writer was failing.                     *)
(***************************************************************************)
MaxMsgs == 2

EvLevels == {LogLevelWarn}
EvRequests == {LogLevelError, LogLevelDebug}
EvFields == {<<"k", "v">>, <<"id", "7 8">>}
EvTerms ==
    {[f |-> FALSE, msg |-> "m", args |-> <<>>, text |-> "m"],
     [f |-> TRUE, msg |-> "x %s", args |-> <<"y">>, text |-> "x y"]}

ParkedEvent ==
    /\ ev = [t \in Threads |-> None]
    /\ built = 0
    /\ wanted = 0
    /\ broken = FALSE

InitEvent ==
    /\ \E level \in EvLevels : lg = NewDefaultLeveledLoggerForScope("", level, Buffer)
    /\ sink = [w \in Writers |-> <<>>]
    /\ pc = [t \in Threads |-> "idle"]
    /\ op = [t \in Threads |-> NoOp]
    /\ lastSet = None
    /\ sent = <<>>
    /\ ev = [t \in Threads |-> None]
    /\ built = 0
    /\ wanted = 0
    /\ broken \in BOOLEAN

\* The terminating call c on formatter f: the formatter after it.
Terminate(f, c) ==
    IF c.f THEN EventMsgf(f, c.msg, c.args) ELSE EventMsg(f, c.msg)

\* A delivery that puts the bytes in front of what the writer holds.
DeliverInFront(t, f) ==
    LET ws == Flush(f)
        recs == [i \in 1..Len(ws) |-> [by |-> t, bytes |-> ws[i]]]
        diags == IF broken
                 THEN [i \in 1..Len(ws) |-> [by |-> t, bytes |-> Diagnostic(WriteError)]]
                 ELSE <<>>
    IN  [w \in Writers |->
            (IF w = f.writer THEN recs ELSE <<>>) \o sink[w]
                    \o (IF w = DiagnosticWriter THEN diags ELSE <<>>)]
\* What the Write calls of a terminating call leave behind: the bytes on the
\* formatter's writer and, when Write returns an error, the diagnostic.
Deliver(t, f) ==
    LET ws == Flush(f)
        recs == [i \in 1..Len(ws) |-> [by |-> t, bytes |-> ws[i]]]
        diags == IF broken
                 THEN [i \in 1..Len(ws) |-> [by |-> t, bytes |-> Diagnostic(WriteError)]]
                 ELSE <<>>
    IN  [w \in Writers |->
            sink[w] \o (IF w = f.writer THEN recs ELSE <<>>)
                    \o (IF w = DiagnosticWriter THEN diags ELSE <<>>)]

\* l.ErrorLvl(), l.DebugLvl(), ...: thread t takes an event; it takes one in
\* a behaviour, and further events come from the <Level> methods.
EvNew(t, request) ==
    /\ lg.kind = "text"
    /\ ev[t] = None
    /\ LET f == newEvent(lg, request)
       IN  /\ ev' = [ev EXCEPT ![t] = Some([formatter |-> f, request |-> request,
                                            fields |-> <<>>, all |-> <<>>, terms |-> 0])]
           /\ built' = built + (IF f.noop THEN 0 ELSE 1)
    /\ wanted' = wanted + (IF lg.level >= request THEN 1 ELSE 0)
    /\ UNCHANGED <<lg, sink, pc, op, lastSet, sent, broken>>
    /\ UNCHANGED <<varsLevel, varsFactory, varsOutput>>

\* e.Str(key, val) on the event thread t holds; an event is given each field
\* of EvFields once.
EvStr(t, key, val) ==
    /\ lg.kind = "text"
    /\ ev[t] # None
    /\ \A i \in 1..Len(ev[t][1].all) : ev[t][1].all[i] # <<key, val>>
    /\ LET e == ev[t][1]
       IN  ev' = [ev EXCEPT ![t] =
                     Some([e EXCEPT !.formatter = EventStr(e.formatter, key, val),
                                    !.fields = Append(e.fields, <<key, val>>),
                                    !.all = Append(e.all, <<key, val>>)])]
    /\ UNCHANGED <<lg, sink, pc, op, lastSet, sent, built, wanted, broken>>
    /\ UNCHANGED <<varsLevel, varsFactory, varsOutput>>

\* e.Msg(message) or e.Msgf(format, args...) on the event thread t holds; the
\* thread keeps the event.
EvMsg(t, c) ==
    /\ lg.kind = "text"
    /\ ev[t] # None
    /\ Len(sent) < MaxMsgs
    /\ LET e == ev[t][1]
           f == Terminate(e.formatter, c)
       IN  /\ sink' = Deliver(t, f)
           /\ sent' = Append(sent, [by |-> t, request |-> e.request, text |-> c.text,
                                    fields |-> e.fields, all |-> e.all,
                                    first |-> e.terms = 0, legacy |-> FALSE,
                                    on |-> lg.level >= e.request, err |-> broken])
           /\ ev' = [ev EXCEPT ![t] =
                        Some([e EXCEPT !.formatter = f, !.fields = <<>>,
                                       !.terms = e.terms + 1])]
    /\ UNCHANGED <<lg, pc, op, lastSet, built, wanted, broken>>
    /\ UNCHANGED <<varsLevel, varsFactory, varsOutput>>

\* l.Error(msg), l.Debugf(format, args...), ...: l.<Level>Lvl().Msg(msg).
EvEmit(t, request, c) ==
    /\ lg.kind = "text"
    /\ Len(sent) < MaxMsgs
    /\ LET f0 == newEvent(lg, request)
           f == Terminate(f0, c)
       IN  /\ sink' = Deliver(t, f)
           /\ built' = built + (IF f0.noop THEN 0 ELSE 1)
    /\ wanted' = wanted + (IF lg.level >= request THEN 1 ELSE 0)
    /\ sent' = Append(sent, [by |-> t, request |-> request, text |-> c.text,
                             fields |-> <<>>, all |-> <<>>,
                             first |-> TRUE, legacy |-> TRUE,
                             on |-> lg.level >= request, err |-> broken])
    /\ UNCHANGED <<lg, pc, op, lastSet, ev, broken>>
    /\ UNCHANGED <<varsLevel, varsFactory, varsOutput>>

(***************************************************************************)
(* The specifications                                                      *)
(***************************************************************************)
LevelInit == InitLevel /\ ParkedLogger /\ ParkedFactory /\ ParkedOutput /\ ParkedJSON /\ ParkedEvent

NextLevel ==
    \/ \E t \in Threads, v \in SetValues : LevelSet(t, v)
    \/ \E t \in Threads : LevelGet(t)
    \/ \E v \in StringInputs : LevelString(v)

SpecLevel == LevelInit /\ [][NextLevel]_vars

Init == ParkedLevel /\ InitLogger /\ ParkedFactory /\ ParkedOutput /\ ParkedJSON /\ ParkedEvent

Next ==
    \/ \E t \in Threads, request \in RequestLevels, msg \in Msgs :
          EmitCall(t, request, FALSE, msg, <<>>)
    \/ \E t \in Threads, request \in RequestLevels, call \in FormatCalls :
          EmitCall(t, request, TRUE, call.format, call.args)
    \/ \E t \in Threads : EmitWrite(t)
    \/ \E t \in Threads : EmitReturn(t)
    \/ \E t \in Threads, newLevel \in LevelArgs : CallSetLevel(t, newLevel)
    \/ \E t \in Threads, newLevel \in LevelArgs : CallDefaultSetLevel(t, newLevel)

Spec == Init /\ [][Next]_vars

FactoryInit == ParkedLevel /\ ParkedLogger /\ InitFactory /\ ParkedOutput /\ ParkedJSON /\ ParkedEvent

NextFactory ==
    \/ \E options \in OptionLists : BuildJSONFactory(options)
    \/ BuildDefaultFactory
    \/ \E scope \in AskScopes : CallJSONNewLogger(scope)
    \/ \E scope \in AskScopes : CallDefaultNewLogger(scope)

SpecFactory == FactoryInit /\ [][NextFactory]_vars

OutputInit == ParkedLevel /\ ParkedLogger /\ InitOutputFactory /\ ParkedOutput /\ ParkedJSON /\ ParkedEvent

NextOutput ==
    \/ \E scope \in OutScopes : OutNewLogger(scope)
    \/ \E i \in 1..Cardinality(Holders), newLevel \in OutLevels : OutSetLevel(i, newLevel)
    \/ \E i \in 1..Cardinality(Holders), output \in OutWriters : OutWithOutput(i, output)
    \/ \E i \in 1..Cardinality(Holders) : OutBegin(i)
    \/ \E i \in 1..Cardinality(Holders) : OutWrite(i)
    \/ \E i \in 1..Cardinality(Holders), level \in SlogLevels : OutSlogLog(i, level)

SpecOutput == OutputInit /\ [][NextOutput]_vars

JSONInit == ParkedLevel /\ InitJSON /\ ParkedFactory /\ ParkedOutput /\ ParkedEvent

NextJSON ==
    \/ \E t \in Threads, request \in RequestLevels, c \in JSONCalls : JSONEmit(t, request, c)
    \/ \E t \in Threads, newLevel \in LevelArgs : CallSetLevel(t, newLevel)

SpecJSON == JSONInit /\ [][NextJSON]_vars

RecordsInit == ParkedLevel /\ InitRecords /\ ParkedFactory /\ ParkedOutput /\ ParkedEvent

NextRecords ==
    \/ \E t \in Threads, request \in RequestLevels, msg \in RecMsgs, args \in RecArgs :
          RecLogf(t, request, msg, args)
    \/ \E t \in Threads, request \in RequestLevels, msg \in RecMsgs, args \in RecArgs :
          RecLegacyLogf(t, request, msg, args)

SpecRecords == RecordsInit /\ [][NextRecords]_vars

EventInit == ParkedLevel /\ InitEvent /\ ParkedFactory /\ ParkedOutput

NextEvent ==
    \/ \E t \in Threads, request \in EvRequests : EvNew(t, request)
    \/ \E t \in Threads, kv \in EvFields : EvStr(t, kv[1], kv[2])
    \/ \E t \in Threads, c \in EvTerms : EvMsg(t, c)
    \/ \E t \in Threads, request \in EvRequests, c \in EvTerms : EvEmit(t, request, c)

SpecEvent == EventInit /\ [][NextEvent]_vars

(***************************************************************************)
(* Properties of LogLevel, checked under SpecLevel                         *)
(***************************************************************************)
\* C5: LogLevel.Set and LogLevel.Get are atomic.  Under every interleaving of
\* Set and Get calls from the threads, a Get returns the value of the most
\* recent completed Set (the initial value when there was none), and every
\* value a Get returns is the initial value or a value passed to some Set.
C5_SetGetAtomic ==
    \A t \in Threads :
        llGot[t] # None =>
            /\ llGot[t] = llExpect[t]
            /\ llGot[t][1] \in llStored

\* Two threads have each loaded a value another call stored, one of them the
\* smallest int32 and the other a value that names no level.
C5_Witness ==
    /\ llGot["t1"] = Some(MinInt32)
    /\ llGot["t2"] = Some(999)
    /\ Cardinality(llStored) >= 3

\* The display names by numeric value, as the documentation lists them.
DisplayNames == <<"Disabled", "Error", "Warn", "Info", "Debug", "Trace">>

\* C6: String() maps Disabled, Error, Warn, Info, Debug, Trace, which are 0..5
\* in that increasing order, to "Disabled", "Error", "Warn", "Info", "Debug",
\* "Trace", and every other integer to "UNKNOWN".
C6_StringTable ==
    /\ <<LogLevelDisabled, LogLevelError, LogLevelWarn,
         LogLevelInfo, LogLevelDebug, LogLevelTrace>> = <<0, 1, 2, 3, 4, 5>>
    /\ llStr.arg # None =>
          llStr.res = IF llStr.arg[1] \in 0..5
                      THEN DisplayNames[llStr.arg[1] + 1]
                      ELSE "UNKNOWN"

\* String() has been called on Trace and has answered "Trace".
C6_Witness == llStr = [arg |-> Some(LogLevelTrace), res |-> "Trace"]

(***************************************************************************)
(* Properties of the loggers, checked under Spec                           *)
(***************************************************************************)
\* The Write calls of thread t that the logger's writer holds.
RecordsBy(t) == SelectSeq(sink[lg.output], LAMBDA r : r.by = t)
\* The call thread t has in flight has had its one record written.
Emitted(t) == WrittenBy(t) = op[t].base + 1
\* The call thread t has in flight was let through by the level check.
LetThrough(t) == pc[t] = "write" \/ (pc[t] = "ret" /\ Emitted(t))

\* C1: filter law.  For the text and the JSON logger, whenever the logger's
\* level is below the request level at the time of the call, <R>(msg) and
\* <R>f(format, args) write nothing to any writer; a logger at Disabled
\* writes nothing for any of the ten operations, Error and Errorf included.
C1_FilterLaw ==
    \A t \in Threads :
        (pc[t] # "idle" /\ ~op[t].expect) =>
            /\ pc[t] = "ret"
            /\ WrittenBy(t) = op[t].base

\* Errorf on a JSON logger at Disabled has returned and nothing was written.
C1_Witness ==
    /\ lg.kind = "json" /\ lg.level = LogLevelDisabled
    /\ pc["t1"] = "ret" /\ op["t1"].request = LogLevelError /\ op["t1"].f
    /\ ~op["t1"].expect
    /\ Written = 0

\* C2: emission law.  A call is let through if and only if the logger's level
\* is at least the request level at the time of the call, and a call
\* <R>(msg) that is let through appends exactly one record to the logger's
\* writer, and that record contains msg.
C2_EmissionLaw ==
    \A t \in Threads :
        /\ pc[t] # "idle" => (LetThrough(t) <=> op[t].expect)
        /\ (pc[t] = "ret" /\ op[t].expect /\ ~op[t].f) =>
              /\ Len(RecordsBy(t)) = op[t].base + 1
              /\ Contains(RecordsBy(t)[Len(RecordsBy(t))].bytes, op[t].msg)

\* Warn(msg) on a text logger at Trace has returned with its record written.
C2_Witness ==
    /\ lg.kind = "text" /\ lg.level = LogLevelTrace
    /\ pc["t2"] = "ret" /\ op["t2"].request = LogLevelWarn /\ ~op["t2"].f
    /\ op["t2"].expect
    /\ Len(RecordsBy("t2")) = 1

\* C3: SetLevel is visible to every later call.  Once SetLevel(L) has returned,
\* a call that begins afterwards on any thread, before another SetLevel, is
\* let through if and only if L is at least its request level, whatever the
\* level was earlier.
C3_SetLevelVisible ==
    \A t \in Threads :
        (pc[t] # "idle" /\ op[t].afterSet # None) =>
            (LetThrough(t) <=> op[t].afterSet[1])

\* A record went out at an earlier level, SetLevel(Disabled) returned, and an
\* Error call that began afterwards on t1 has returned with nothing written.
C3_Witness ==
    /\ lg.kind = "json"
    /\ lastSet = Some(LogLevelDisabled)
    /\ WrittenBy("t2") = 1
    /\ pc["t1"] = "ret" /\ op["t1"].request = LogLevelError
    /\ op["t1"].afterSet = Some(FALSE)
    /\ WrittenBy("t1") = 0

\* The filter decisions of a logger: for each request level, whether the
\* level check lets a call at that level through.
Decisions(l) ==
    [request \in RequestLevels |->
        IF l.kind = "json" THEN jsonEnabled(l, MethodSlogLevel(request))
                           ELSE ~newEvent(l, request).noop]
\* SetLevel on either logger.
AnySetLevel(l, newLevel) ==
    IF l.kind = "json" THEN SetLevel(l, newLevel) ELSE DefaultSetLevel(l, newLevel)

\* C4: SetLevel is idempotent.  A SetLevel(C) on a logger whose level is C
\* leaves the logger and the writers as they were, and when a SetLevel(D) has
\* taken the logger away from level C, a SetLevel(C) gives it back the filter
\* decisions it had at C, for every request level.  (lastSet changes in the
\* steps that are a SetLevel with an argument other than the previous one's.)
C4_SetLevelIdempotent ==
    [][lastSet' # lastSet =>
          /\ lastSet'[1] = lg.level => (lg' = lg /\ sink' = sink)
          /\ Decisions(AnySetLevel(lg', lg.level)) = Decisions(lg)]_vars

\* SetLevel has brought a JSON logger down to Warn, and an Info call made
\* since has returned with nothing written.
C4_Witness ==
    /\ lg.kind = "json"
    /\ lastSet = Some(LogLevelWarn) /\ lg.level = LogLevelWarn
    /\ pc["t1"] = "ret" /\ op["t1"].request = LogLevelInfo
    /\ op["t1"].afterSet = Some(FALSE)
    /\ WrittenBy("t1") = op["t1"].base

(***************************************************************************)
(* Properties of the factories, checked under SpecFactory                  *)
(***************************************************************************)
\* The factory that has been built, when one has.
Built == IF jf # None THEN jf[1].f ELSE df[1].f
HasUpper(s) == \E i \in 1..Len(s) : Char(s, i) \in DOMAIN LowerOf

\* C7: scope resolution.  NewLogger(s) returns a logger whose level is
\* scopeLevels[s] when s is a key of the factory's scope map and the
\* factory's default level otherwise; the override wins also when it is less
\* verbose than the default.
C7_ScopeResolution ==
    made # None =>
        made[1].logger.level =
            IF made[1].asked \in DOMAIN Built.scopeLevels
            THEN Built.scopeLevels[made[1].asked]
            ELSE Built.defaultLogLevel

\* PION_LOG_TRACE=all and PION_LOG_WARN=foo: the text factory's default is
\* Trace, and NewLogger("foo") has returned a logger at Warn.
C7_Witness ==
    /\ df # None /\ made # None
    /\ env["PION_LOG_TRACE"] = "all" /\ env["PION_LOG_WARN"] = "foo"
    /\ df[1].f.defaultLogLevel = LogLevelTrace
    /\ made[1].asked = "foo"
    /\ made[1].logger.level = LogLevelWarn

\* The overrides the options register: the name as the caller wrote it, and
\* its level.
RECURSIVE Registered(_)
Registered(options) ==
    IF options = <<>> THEN {}
    ELSE Registered(Tail(options)) \cup
         (IF Head(options).opt = "scopes" /\ ~Head(options).isNil
          THEN {<<k, Head(options).levels[k]>> : k \in DOMAIN Head(options).levels}
          ELSE {})

\* The registration r is the only one the options make for its lower-cased
\* name, so no other registration replaces it.
Overriding(r, options) ==
    \A q \in Registered(options) : ToLower(q[1]) = ToLower(r[1]) => q = r

\* C8: case asymmetry of the scope lookup.  No key of a factory's scope map
\* has an upper-case letter: an override registered through
\* WithJSONScopeLevels under a name with upper-case letters is stored under
\* the lower-cased name.  NewLogger looks the scope up as written, so
\* NewLogger of a name with an upper-case letter gets the default level, and
\* NewLogger of the lower-cased name gets the override.
C8_CaseAsymmetry ==
    /\ (jf # None \/ df # None) =>
          \A k \in DOMAIN Built.scopeLevels : ~HasUpper(k)
    /\ jf # None =>
          \A r \in Registered(jf[1].options) :
              /\ ToLower(r[1]) \in DOMAIN jf[1].f.scopeLevels
              /\ Overriding(r, jf[1].options) =>
                    /\ jf[1].f.scopeLevels[ToLower(r[1])] = r[2]
                    /\ made # None /\ made[1].asked = ToLower(r[1]) =>
                          made[1].logger.level = r[2]
    /\ (made # None /\ HasUpper(made[1].asked)) =>
          made[1].logger.level = Built.defaultLogLevel

\* WithJSONDefaultLevel(Disabled) and WithJSONScopeLevels({"Foo": Warn}):
\* NewLogger("Foo") has returned a logger at Disabled, the default.
C8_Witness ==
    /\ jf # None /\ made # None
    /\ jf[1].options = <<WithJSONDefaultLevel(LogLevelDisabled),
                         WithJSONScopeLevels("Foo" :> LogLevelWarn)>>
    /\ "foo" \in DOMAIN jf[1].f.scopeLevels
    /\ made[1].asked = "Foo"
    /\ made[1].logger.level = LogLevelDisabled

\* A value that is "all" in some casing.
IsAll(value) ==
    /\ Len(value) = 3
    /\ Char(value, 1) \in {"a", "A"}
    /\ Char(value, 2) \in {"l", "L"}
    /\ Char(value, 3) \in {"l", "L"}
\* The value that configures a level name: PION_LOG_<NAME>, and
\* PIONS_LOG_<NAME> when that is empty.
ValueFor(name) ==
    IF env["PION_LOG_" \o name] # "" THEN env["PION_LOG_" \o name]
    ELSE env["PIONS_LOG_" \o name]
Max(S) == CHOOSE x \in S : \A y \in S : y <= x
\* The default level the all-broadcast rule gives the environment.
BroadcastDefault ==
    Max({LogLevelError} \cup
        {logLevels(name) : name \in {n \in LevelNames : IsAll(ValueFor(n))}})
\* The scope names the values of the environments list.
ListedScopes(value) ==
    CASE value = "foo" -> {"foo"}
      [] value = "Foo,BAR" -> {"foo", "bar"}
      [] value = "all,foo" -> {"all", "foo"}
      [] value = "ALL, foo," -> {"all", " foo", ""}
      [] OTHER -> {}
ListedKeys == UNION {ListedScopes(ValueFor(name)) : name \in LevelNames}

\* C9: all-broadcast in the JSON factory.  The default level of the factory
\* NewJSONLoggerFactory() builds is the maximum of Error and the levels of the
\* names whose value is "all" in any casing; it is never below Error; and
\* the scope map holds the listed scopes only, no entry for a broadcast.
C9_JSONBroadcast ==
    (jf # None /\ jf[1].options = <<>>) =>
        /\ jf[1].f.defaultLogLevel = BroadcastDefault
        /\ jf[1].f.defaultLogLevel >= LogLevelError
        /\ DOMAIN jf[1].f.scopeLevels = ListedKeys

\* PION_LOG_DISABLE=all and PION_LOG_DEBUG=all: the JSON factory's default is
\* Debug and its scope map is empty.
C9_Witness ==
    /\ jf # None /\ jf[1].options = <<>>
    /\ env["PION_LOG_DISABLE"] = "all" /\ env["PION_LOG_DEBUG"] = "all"
    /\ jf[1].f.defaultLogLevel = LogLevelDebug
    /\ jf[1].f.scopeLevels = EmptyMap

\* C10: all-broadcast in the text factory.  The default level of the factory
\* NewDefaultLoggerFactory() builds is the maximum of Error and the levels of
\* the names whose value is "all"; PION_LOG_DISABLE=all does not take it
\* below Error; with ERROR, WARN, INFO, DEBUG and TRACE all set to "all" it
\* is Trace, in whatever order the names are visited.
C10_TextBroadcast ==
    df # None =>
        /\ df[1].f.defaultLogLevel = BroadcastDefault
        /\ df[1].f.defaultLogLevel >= LogLevelError

\* The factory has been built from the environment alone.
FromEnvOnly == df # None \/ (jf # None /\ jf[1].options = <<>>)

\* C11: environment fallback.  For every level name N the value used is that
\* of PION_LOG_N when it is not empty, PIONS_LOG_N then being ignored, and
\* that of PIONS_LOG_N otherwise; a name whose two variables are empty
\* contributes nothing.  So the scopes mapped to N's level are among those
\* the used value lists, every scope it lists is a key, and the default is
\* N's level (other than the initial Error) only when the used value is "all".
C11_EnvFallback ==
    FromEnvOnly =>
        \A name \in LevelNames :
            LET pion == env["PION_LOG_" \o name]
                pions == env["PIONS_LOG_" \o name]
                used == IF pion # "" THEN pion ELSE pions
            IN /\ \A k \in DOMAIN Built.scopeLevels :
                      Built.scopeLevels[k] = logLevels(name) => k \in ListedScopes(used)
               /\ ListedScopes(used) \subseteq DOMAIN Built.scopeLevels
               /\ (Built.defaultLogLevel = logLevels(name) /\ name # "ERROR") => IsAll(used)
               /\ (jf # None /\ IsAll(used)) => Built.defaultLogLevel >= logLevels(name)

\* PION_LOG_DEBUG=foo beside PIONS_LOG_DEBUG=all: the JSON factory maps foo to
\* Debug and keeps the default at Error.
C11_Witness ==
    /\ jf # None /\ jf[1].options = <<>>
    /\ env["PION_LOG_DEBUG"] = "foo" /\ env["PIONS_LOG_DEBUG"] = "all"
    /\ jf[1].f.defaultLogLevel = LogLevelError
    /\ jf[1].f.scopeLevels = ("foo" :> LogLevelDebug)

\* The names whose used value lists the scope k.
NamesListing(k) == {n \in LevelNames : k \in ListedScopes(ValueFor(n))}
\* The levels the environment broadcasts with "all", beside the initial Error.
BroadcastLevels ==
    {LogLevelError} \cup {logLevels(n) : n \in {m \in LevelNames : IsAll(ValueFor(m))}}

\* C12 as first stated: for every level name N whose value is a list and every
\* piece p of the list, the scope map holds lowercase(p) -> level(N), and the
\* list leaves the default level alone.
C12_EveryPieceAtItsLevel ==
    FromEnvOnly =>
        /\ \A name \in LevelNames : \A k \in ListedScopes(ValueFor(name)) :
               /\ k \in DOMAIN Built.scopeLevels
               /\ Built.scopeLevels[k] = logLevels(name)
        /\ Built.defaultLogLevel \in BroadcastLevels

\* C12: scope list from the environment.  When the value for level name N is
\* not "all" it is split on ',' and every piece p is a key of the scope map in
\* its lower-cased form, mapped to the level of one of the names that list it
\* (to level(N) when N alone lists it); the lists leave the default level
\* alone, which stays Error or a level some name broadcasts.
C12_ScopeList ==
    FromEnvOnly =>
        /\ \A name \in LevelNames : \A k \in ListedScopes(ValueFor(name)) :
               /\ k \in DOMAIN Built.scopeLevels
               /\ Built.scopeLevels[k] \in {logLevels(n) : n \in NamesListing(k)}
               /\ NamesListing(k) = {name} => Built.scopeLevels[k] = logLevels(name)
        /\ Built.defaultLogLevel \in BroadcastLevels

\* PION_LOG_DEBUG=Foo,BAR alone: foo and bar at Debug, default Error, and a
\* logger for another scope gets Error.
C12_Witness ==
    /\ jf # None /\ jf[1].options = <<>>
    /\ env = [EmptyEnv EXCEPT !["PION_LOG_DEBUG"] = "Foo,BAR"]
    /\ jf[1].f.scopeLevels = ("foo" :> LogLevelDebug) @@ ("bar" :> LogLevelDebug)
    /\ jf[1].f.defaultLogLevel = LogLevelError
    /\ made # None /\ made[1].asked = "customscope"
    /\ made[1].logger.level = LogLevelError

\* C13: environment parsing is order-independent.  The configuration a
\* constructor returns, default level and scope map, is the one every order of
\* visiting the level names gives for the environment.
C13_OrderIndependent ==
    /\ jf # None =>
           \A order \in OrdersOf(Configured), keyOrders \in KeyOrdersOf(jf[1].options) :
               NewJSONLoggerFactory(jf[1].options, order, keyOrders) = jf[1].f
    /\ df # None =>
           \A order \in OrdersOf(Configured) :
               NewDefaultLoggerFactory(order) = df[1].f

\* C14: in every factory NewJSONLoggerFactory(options...) returns, for every
\* environment and every list of options, each key of the scope map equals
\* its own lower-cased form.
C14_KeysLowercased ==
    jf # None =>
        \A k \in DOMAIN jf[1].f.scopeLevels : k = ToLower(k) /\ ~HasUpper(k)

\* PION_LOG_DEBUG=Foo,BAR and the option WithJSONScopeLevels({"CustomScope":
\* Trace}): the keys are foo, bar and customscope.
C14_Witness ==
    /\ jf # None
    /\ env["PION_LOG_DEBUG"] = "Foo,BAR"
    /\ \E i \in 1..Len(jf[1].options) :
           "CustomScope" \in DOMAIN jf[1].options[i].levels
    /\ DOMAIN jf[1].f.scopeLevels = {"foo", "bar", "customscope"}

\* C15: in every factory a constructor returns, with or without options, the
\* default level is not below any level whose variable is set to "all".
C15_DefaultNotBelowEnv ==
    (jf # None \/ df # None) =>
        \A name \in LevelNames :
            IsAll(ValueFor(name)) => Built.defaultLogLevel >= logLevels(name)

\* The positions of the WithJSONDefaultLevel options in a list, and the keys
\* the option at position i gives whose lower-cased form is that of k.
LevelOptions(options) == {i \in 1..Len(options) : options[i].opt = "level"}
SameLowered(options, i, k) ==
    {q \in DOMAIN options[i].levels : ToLower(q) = ToLower(k)}
\* No option after position i names the scope of k, in any casing.
LastNaming(options, i, k) ==
    \A j \in (i + 1)..Len(options) : SameLowered(options, j, k) = {}
\* The scopes the options of a list name, lower-cased.
OptionScopes(options) ==
    {ToLower(r[1]) : r \in Registered(options)}

\* C16 as first stated: the default level is that of the last
\* WithJSONDefaultLevel option if any; for every key k given to a
\* WithJSONScopeLevels option the scope map holds at lowercase(k) the level
\* the last option naming the scope gives k; environment entries of other
\* scopes are kept.
C16_LastOptionLevel ==
    jf # None =>
        LET options == jf[1].options
            f == jf[1].f
        IN /\ LevelOptions(options) # {} =>
                  f.defaultLogLevel = options[Max(LevelOptions(options))].level
           /\ \A i \in 1..Len(options) : \A k \in DOMAIN options[i].levels :
                  LastNaming(options, i, k) =>
                      /\ ToLower(k) \in DOMAIN f.scopeLevels
                      /\ f.scopeLevels[ToLower(k)] = options[i].levels[k]
           /\ \A k \in ListedKeys \ OptionScopes(options) :
                  /\ k \in DOMAIN f.scopeLevels
                  /\ f.scopeLevels[k] \in {logLevels(n) : n \in NamesListing(k)}

\* C16: options override the environment and are applied in argument order.
\* The default level is that of the last WithJSONDefaultLevel option if any,
\* whatever the environment says, and the environment's broadcast otherwise.
\* For every key k given to a WithJSONScopeLevels option the scope map holds
\* at lowercase(k) a level the last option naming that scope, in any casing,
\* gives one of its keys with that lower-cased form: the level of k when k is
\* the only such key.  Environment entries of other scopes are kept.
C16_OptionsOverride ==
    jf # None =>
        LET options == jf[1].options
            f == jf[1].f
        IN /\ LevelOptions(options) # {} =>
                  f.defaultLogLevel = options[Max(LevelOptions(options))].level
           /\ LevelOptions(options) = {} => f.defaultLogLevel = BroadcastDefault
           /\ \A i \in 1..Len(options) : \A k \in DOMAIN options[i].levels :
                  LastNaming(options, i, k) =>
                      /\ ToLower(k) \in DOMAIN f.scopeLevels
                      /\ f.scopeLevels[ToLower(k)] \in
                             {options[i].levels[q] : q \in SameLowered(options, i, k)}
           /\ \A k \in ListedKeys \ OptionScopes(options) :
                  /\ k \in DOMAIN f.scopeLevels
                  /\ f.scopeLevels[k] \in {logLevels(n) : n \in NamesListing(k)}
           /\ DOMAIN f.scopeLevels = ListedKeys \cup OptionScopes(options)

\* PION_LOG_TRACE=Foo,BAR with WithJSONDefaultLevel(Trace),
\* WithJSONScopeLevels({"foo": Debug}), WithJSONDefaultLevel(Warn),
\* WithJSONScopeLevels({"Foo": Info}): the default is Warn, foo is at Info and
\* bar is still at Trace.
C16_Witness ==
    /\ jf # None
    /\ env = [EmptyEnv EXCEPT !["PION_LOG_TRACE"] = "Foo,BAR"]
    /\ Len(jf[1].options) = 4
    /\ jf[1].f.defaultLogLevel = LogLevelWarn
    /\ jf[1].f.scopeLevels = ("foo" :> LogLevelInfo) @@ ("bar" :> LogLevelTrace)

\* The positions of the WithJSONWriter options in a list.
WriterOptions(options) == {i \in 1..Len(options) : options[i].opt = "writer"}
\* The factory that made the logger was left without a writer: the text
\* factory, whose Writer nothing sets, or a JSON factory whose last
\* WithJSONWriter option, if any, was given nil.
WriterLeftNil ==
    \/ df # None
    \/ /\ jf # None
       /\ WriterOptions(jf[1].options) # {} =>
              jf[1].options[Max(WriterOptions(jf[1].options))].writer = Nil

\* C17: nil writers coerce to standard error.  A logger made by a factory
\* that was left without a writer, text or JSON, WithJSONWriter(nil)
\* included, has standard error as the target of its sink.
C17_NilWriterStderr ==
    (made # None /\ WriterLeftNil) => made[1].logger.output = Stderr

\* The writer a nil argument stands for, and the target of logger i's sink
\* in the heap hW, hL.
Coerced(w) == IF w = Nil THEN Stderr ELSE w
TargetOf(hW, hL, i) == hW[hL[i].writer].output

\* C18: WithOutput(w) returns the very logger it was called on, allocating
\* none, and leaves its level and scope as they were; every record the logger
\* writes after a WithOutput(w) on it has returned goes to w, standard error
\* when w is nil, and to no other writer.
C18_WithOutputInPlace ==
    [][/\ (lastCall' # lastCall /\ lastCall'.op = "WithOutput") =>
              /\ lastCall'.got = lastCall'.on
              /\ Len(heapL') = Len(heapL)
              /\ heapL'[lastCall'.on].level = heapL[lastCall'.on].level
              /\ heapL'[lastCall'.on].scope = heapL[lastCall'.on].scope
       /\ \A i \in 1..Len(heapL) :
              (pend[i] /\ ~pend'[i] /\ redir[i] # None) =>
                  outs' = [outs EXCEPT ![Coerced(redir[i][1])] = Append(@, [by |-> i])]
      ]_vars

\* A logger of a factory that writes to standard error was sent to the
\* buffer by WithOutput and has since written its record there.
C18_Witness ==
    /\ jf # None /\ jf[1].f.writer = Stderr
    /\ Len(heapL) >= 1 /\ redir[1] = Some(Buffer)
    /\ outs[Buffer] = <<[by |-> 1]>>
    /\ outs[Stderr] = <<>>

\* The level the factory f resolves for a scope.
Resolved(f, scope) ==
    IF scope \in DOMAIN f.scopeLevels THEN f.scopeLevels[scope] ELSE f.defaultLogLevel

\* C19: logger independence.  A logger the factory returns starts at the
\* level the factory resolves for its scope, writing to the factory's writer,
\* and no two loggers share a sink; a SetLevel or WithOutput on one logger,
\* and the making of another, leave the level and the sink target of every
\* other logger as they were, and no step changes the factory.
C19_LoggerIndependence ==
    [][/\ jf' = jf
       /\ \A i, j \in 1..Len(heapL) : i # j => heapL[i].writer # heapL[j].writer
       /\ Len(heapL') > Len(heapL) =>
              /\ Len(heapL') = Len(heapL) + 1
              /\ heapL'[Len(heapL')].level =
                     Resolved(jf[1].f, heapL'[Len(heapL')].scope)
              /\ TargetOf(heapW', heapL', Len(heapL')) = Coerced(jf[1].f.writer)
              /\ \A i \in 1..Len(heapL) :
                     /\ heapL'[i].level = heapL[i].level
                     /\ TargetOf(heapW', heapL', i) = TargetOf(heapW, heapL, i)
       /\ lastCall' # lastCall =>
              \A i \in 1..Len(heapL) \ {lastCall'.on} :
                  /\ heapL'[i].level = heapL[i].level
                  /\ TargetOf(heapW', heapL', i) = TargetOf(heapW, heapL, i)
      ]_vars

\* Two loggers of one factory for the same scope: the first was disabled by
\* SetLevel and sent to the buffer by WithOutput, the second is still at the
\* factory's level and writer.
C19_Witness ==
    /\ Len(heapL) = 2
    /\ heapL[1].scope = heapL[2].scope
    /\ lastCall.op = "WithOutput" /\ lastCall.on = 1
    /\ heapL[1].level = LogLevelDisabled
    /\ TargetOf(heapW, heapL, 1) = Buffer
    /\ heapL[2].level = Resolved(jf[1].f, heapL[2].scope)
    /\ jf[1].f.writer = Stderr
    /\ TargetOf(heapW, heapL, 2) = Stderr

\* Reading a JSON string: i is the position after the opening quote, acc the
\* characters read so far.  The result is the string and the position after
\* the closing quote; ok is FALSE when the text is no JSON string.
NoParse == [ok |-> FALSE, val |-> "", members |-> <<>>, next |-> 0]
RECURSIVE ScanString(_, _, _)
ScanString(s, i, acc) ==
    IF i > Len(s) THEN NoParse
    ELSE IF Char(s, i) = "\"" THEN [NoParse EXCEPT !.ok = TRUE, !.val = acc, !.next = i + 1]
    ELSE IF Char(s, i) = "\n" THEN NoParse
    ELSE IF Char(s, i) # "\\" THEN ScanString(s, i + 1, acc \o Char(s, i))
    ELSE IF i + 1 > Len(s) THEN NoParse
    ELSE IF Char(s, i + 1) \in {"\"", "\\"} THEN ScanString(s, i + 2, acc \o Char(s, i + 1))
    ELSE IF Char(s, i + 1) = "n" THEN ScanString(s, i + 2, acc \o "\n")
    ELSE NoParse
\* Reading the members "key":"value" of an object up to its closing brace.
RECURSIVE ScanMembers(_, _, _)
ScanMembers(s, i, acc) ==
    IF i > Len(s) \/ Char(s, i) # "\"" THEN NoParse
    ELSE LET k == ScanString(s, i + 1, "")
         IN IF ~k.ok \/ k.next + 1 > Len(s) THEN NoParse
            ELSE IF Char(s, k.next) # ":" \/ Char(s, k.next + 1) # "\"" THEN NoParse
            ELSE LET v == ScanString(s, k.next + 2, "")
                 IN IF ~v.ok \/ v.next > Len(s) THEN NoParse
                    ELSE IF Char(s, v.next) = ","
                    THEN ScanMembers(s, v.next + 1, Append(acc, <<k.val, v.val>>))
                    ELSE IF Char(s, v.next) = "}"
                    THEN [NoParse EXCEPT !.ok = TRUE, !.next = v.next + 1,
                                         !.members = Append(acc, <<k.val, v.val>>)]
                    ELSE NoParse
\* The bytes of one Write read as one JSON object on a line of its own.
ParseRecord(bytes) ==
    IF Len(bytes) < 2 \/ Char(bytes, 1) # "{" THEN NoParse
    ELSE LET r == ScanMembers(bytes, 2, <<>>)
         IN IF r.ok /\ r.next = Len(bytes) /\ Char(bytes, r.next) = "\n" THEN r
            ELSE NoParse
\* The values an object gives for a key.
ValuesOf(members, key) ==
    {members[i][2] : i \in {j \in 1..Len(members) : members[j][1] = key}}
\* The upper-case names of the request levels.
RequestName(request) ==
    CASE request = LogLevelTrace -> "TRACE"
      [] request = LogLevelDebug -> "DEBUG"
      [] request = LogLevelInfo -> "INFO"
      [] request = LogLevelWarn -> "WARN"
      [] request = LogLevelError -> "ERROR"

CountKey(members, key) == Cardinality({j \in 1..Len(members) : members[j][1] = key})

\* C21: every record a JSON logger emits carries the key level exactly once;
\* the logger adds no level key of its own beside the handler's.
C21_LevelKeyOnce ==
    \A i \in 1..Len(sink[Buffer]) :
        LET p == ParseRecord(sink[Buffer][i].bytes)
        IN p.ok /\ CountKey(p.members, "level") = 1

\* The pairs of an args list k1, v1, ..., kn, vn.
RECURSIVE PairsOf(_)
PairsOf(args) ==
    IF Len(args) < 2 THEN <<>>
    ELSE << <<args[1], args[2]>> >> \o PairsOf(SubSeq(args, 3, Len(args)))
BaseKeys == {"time", "level", "msg", "scope"}

Passing == SelectSeq(sent, LAMBDA c : c.on)
OfThread(t, calls) == SelectSeq(calls, LAMBDA c : c.by = t)
HasSuffix(s, p) == Len(p) <= Len(s) /\ SubSeq(s, Len(s) - Len(p) + 1, Len(s)) = p

\* k1=v1 k2=v2 ... kn=vn m\n
RECURSIVE Line(_, _)
Line(fields, m) ==
    IF fields = <<>> THEN m \o "\n"
    ELSE Head(fields)[1] \o "=" \o Head(fields)[2] \o " " \o Line(Tail(fields), m)

\* C23: text record format.  For an enabled event on which the fields
\* (k1,v1),...,(kn,vn) were added in that order and then Msg(m) was called,
\* the bytes handed to the sink are exactly "k1=v1 k2=v2 ... kn=vn m\n",
\* single spaces separating; with no fields they are exactly "m\n": no
\* leading space, no time, level or scope token.
C23_TextRecordFormat ==
    /\ Len(sink[Buffer]) = Len(Passing)
    /\ \A i \in 1..Len(Passing) :
          Passing[i].first =>
              sink[Buffer][i].bytes = Line(Passing[i].fields, Passing[i].text)

\* An event was given k=v and then id=7 8 and terminated with Msg("m"); a
\* <Level> call without fields wrote its message alone.
C23_Witness ==
    /\ Len(sink[Buffer]) = 2
    /\ Passing[1].fields = << <<"k", "v">>, <<"id", "7 8">> >>
    /\ Passing[1].first
    /\ sink[Buffer][1].bytes = "k=v id=7 8 m\n"
    /\ Passing[2].legacy
    /\ sink[Buffer][2].bytes = "m\n"

RECURSIVE CountErr(_)
CountErr(calls) ==
    IF calls = <<>> THEN 0
    ELSE (IF Head(calls).err THEN 1 ELSE 0) + CountErr(Tail(calls))

\* C24: disabled call-sites have no side effect.  When the logger's level is
\* below the request level the event holds the no-op formatter, the
\* FormatterFactory has not been invoked for it, and field accessors followed
\* by Msg or Msgf hand nothing to any writer: the writers hold what the
\* enabled calls wrote and nothing more.
C24_DisabledNoSideEffects ==
    /\ built = wanted
    /\ \A t \in Threads :
          (ev[t] # None /\ lg.level < ev[t][1].request) =>
              ev[t][1].formatter = NoopFormatter
    /\ Len(sink[Buffer]) = Len(Passing)
    /\ Len(sink[Stdout]) + Len(sink[Stderr]) = CountErr(Passing)

\* A Debug event of a logger at Warn was given two fields and terminated; no
\* formatter was made and no writer received anything.
C24_Witness ==
    /\ \E i \in 1..Len(sent) :
          /\ ~sent[i].on /\ ~sent[i].legacy
          /\ Len(sent[i].fields) = 2
    /\ \E i \in 1..Len(sent) : ~sent[i].on /\ sent[i].legacy
    /\ built = 0
    /\ \A w \in Writers : sink[w] = <<>>

\* C25: writer errors are swallowed.  When Write returns an error the call
\* returns, a diagnostic is reported on standard error, the logger's level
\* and sink target stay as they were, and later emissions are still handed
\* to the sink.
C25_WriterErrorsSwallowed ==
    /\ lg.output = Buffer /\ lg.level \in EvLevels
    /\ Len(sink[Buffer]) = Len(Passing)
    /\ Len(sink[Stderr]) = CountErr(Passing)
    /\ \A i \in 1..Len(sink[Stderr]) : sink[Stderr][i].bytes = Diagnostic(WriteError)

\* C26: per-thread ordering.  The records a thread's calls left on the sink
\* are those of its enabled calls, one each and in call order: the i-th
\* record ends with the fields and message of the i-th enabled call, and a
\* <Level> call's record is its message and the newline.
C26_PerThreadOrder ==
    \A t \in Threads :
        LET en == OfThread(t, Passing)
            recs == OfThread(t, sink[Buffer])
        IN /\ Len(recs) = Len(en)
           /\ \A i \in 1..Len(en) :
                 /\ HasSuffix(recs[i].bytes, Line(en[i].fields, en[i].text))
                 /\ en[i].legacy => recs[i].bytes = en[i].text \o "\n"

\* A logger at Warn received Debug("m") then Errorf("x %s", "y") from one
\* thread: one record, "x y\n".
C26_Witness ==
    /\ Len(sent) = 2
    /\ sent[1].by = sent[2].by
    /\ sent[1].legacy /\ ~sent[1].on /\ sent[1].request = LogLevelDebug /\ sent[1].text = "m"
    /\ sent[2].legacy /\ sent[2].on /\ sent[2].text = "x y"
    /\ ~broken
    /\ sink[Buffer] = << [by |-> sent[2].by, bytes |-> "x y\n"] >>

\* C27: no interleaving inside a record.  Every enabled terminating call is
\* one Write of a newline-terminated text, so the sink holds whole records
\* whatever the interleaving of the threads, and a field found in a record
\* was added to the event of the thread that wrote it.
C27_WholeRecords ==
    /\ Len(sink[Buffer]) = Len(Passing)
    /\ \A i \in 1..Len(Passing) :
          LET rec == sink[Buffer][i]
          IN /\ rec.by = Passing[i].by
             /\ HasSuffix(rec.bytes, "\n")
             /\ \A kv \in EvFields :
                   Contains(rec.bytes, kv[1] \o "=" \o kv[2]) =>
                       \E j \in 1..Len(Passing[i].all) : Passing[i].all[j] = kv

\* Two threads held events with different fields at the same time and both
\* terminated them: two records, each with its own thread's field.
C27_Witness ==
    /\ Len(sink[Buffer]) = 2
    /\ sink[Buffer][1].by # sink[Buffer][2].by
    /\ Passing[1].all = << <<"k", "v">> >>
    /\ Passing[2].all = << <<"id", "7 8">> >>
    /\ \A t \in Threads : ev[t] # None /\ ev[t][1].terms = 1
    /\ sink[Buffer][1].bytes = "k=v m\n"
    /\ sink[Buffer][2].bytes = "id=7 8 m\n"

\* C30: each terminating call writes exactly one record.  Every Msg or Msgf
\* on an event writes one newline-terminated record holding only the fields
\* added since the event's previous terminating call: a second Msg does not
\* write the first record's bytes again, and a new event starts without
\* fields.
C30_OneRecordPerTerminate ==
    /\ Len(sink[Buffer]) = Len(Passing)
    /\ \A i \in 1..Len(Passing) :
          sink[Buffer][i].bytes = Line(Passing[i].fields, Passing[i].text)

(***************************************************************************)
(* Further properties of the factories, checked under SpecFactory          *)
(***************************************************************************)
\* C28: the all-broadcast applies only when the whole value is "all".  A
\* value with "all" as one of several comma-separated pieces leaves the
\* default level alone, which stays Error or a level some other name
\* broadcasts; it makes "all" and every other piece of the list, untrimmed
\* and the empty piece included, a scope of the map at the level of the
\* name (of one of the names, when several list the piece), and a logger
\* asked for the scope "all" gets that level.
C28_AllOnlyWhenWhole ==
    FromEnvOnly =>
        \A name \in LevelNames :
            "all" \in ListedScopes(ValueFor(name)) =>
                /\ \A k \in ListedScopes(ValueFor(name)) :
                      /\ k \in DOMAIN Built.scopeLevels
                      /\ Built.scopeLevels[k] \in {logLevels(n) : n \in NamesListing(k)}
                      /\ NamesListing(k) = {name} => Built.scopeLevels[k] = logLevels(name)
                /\ Built.defaultLogLevel \in BroadcastLevels
                /\ (made # None /\ made[1].asked = "all") =>
                      made[1].logger.level = Built.scopeLevels["all"]

\* PION_LOG_DEBUG="ALL, foo," alone: the text factory has the scopes "all",
\* " foo" and "" at Debug, its default is Error, and NewLogger("all") gave a
\* logger at Debug.
C28_Witness ==
    /\ df # None
    /\ env = [EmptyEnv EXCEPT !["PION_LOG_DEBUG"] = "ALL, foo,"]
    /\ df[1].f.scopeLevels =
          ("all" :> LogLevelDebug) @@ (" foo" :> LogLevelDebug) @@ ("" :> LogLevelDebug)
    /\ df[1].f.defaultLogLevel = LogLevelError
    /\ made # None /\ made[1].asked = "all"
    /\ made[1].logger.level = LogLevelDebug

(***************************************************************************)
(* Further properties of the loggers' sinks, checked under SpecOutput      *)
(***************************************************************************)
\* The writer logger i is to write to: the argument of the last WithOutput
\* on it, the factory's writer when there was none; standard error for nil.
SinkOf(i) == IF redir[i] # None THEN Coerced(redir[i][1]) ELSE Coerced(jf[1].f.writer)

\* C29: level filtering is done by the leveled wrapper only.  A record logged
\* through the *slog.Logger that Slog() returns, at any of the five levels,
\* is written whatever the logger's level, Disabled included: it goes to the
\* writer the last WithOutput named (the factory's writer before any), and
\* the call leaves the logger's level as it was.
C29_SlogBypassesLevel ==
    [][(lastCall' # lastCall /\ lastCall'.op = "Slog") =>
           /\ outs' = [outs EXCEPT ![SinkOf(lastCall'.on)] =
                          Append(@, [by |-> lastCall'.on])]
           /\ heapL' = heapL
      ]_vars

\* A logger that SetLevel disabled and WithOutput sent to the buffer logged
\* at Debug through Slog(): the buffer holds the record.
C29_Witness ==
    /\ lastCall.op = "Slog" /\ lastCall.level = SlogLevelDebug
    /\ jf # None /\ jf[1].f.writer = Stderr
    /\ heapL[lastCall.on].level = LogLevelDisabled
    /\ Resolved(jf[1].f, heapL[lastCall.on].scope) # LogLevelDisabled
    /\ redir[lastCall.on] = Some(Buffer)
    /\ outs[Buffer] = <<[by |-> lastCall.on]>>
    /\ outs[Stderr] = <<>>

====
